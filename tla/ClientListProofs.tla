--------------------------- MODULE ClientListProofs ---------------------------
(****************************************************************************)
(* Lemmas about the routines on the list of clients, for the proofs about   *)
(* the threads that use them: what the searches find, what adding, removing *)
(* and renaming do to list and heap.  ListOK is what every change keeps,    *)
(* ListStep what no change does more than.                                  *)
(****************************************************************************)
EXTENDS ClientList, NaturalsInduction, SequenceTheorems, WellFoundedInduction, TLAPS

LEMMA LeastExists ==
  ASSUME NEW S \in SUBSET Nat, S # {}
  PROVE  Min(S) \in S /\ \A y \in S : Min(S) <= y
<1>1. PICK x \in S : \A y \in S : ~(<<y, x>> \in OpToRel(<, Nat))
  BY NatLessThanWellFounded, WFMin, Zenon
<1>2. \A y \in S : x <= y
  <2> SUFFICES ASSUME NEW y \in S PROVE x <= y
    OBVIOUS
  <2>1. ~(y < x)
    BY <1>1 DEF OpToRel
  <2> QED BY <2>1
<1> QED BY <1>2 DEF Min

LEMMA FirstOfThatName ==
  ASSUME clients \in Seq(Allocated), NEW x
  PROVE  SelectInSeq(clients, LAMBDA m : heap[m].name = x) \in 0 .. Len(clients)
<1> DEFINE I == {j \in 1 .. Len(clients) : heap[clients[j]].name = x}
<1>1. SelectInSeq(clients, LAMBDA m : heap[m].name = x) = IF I # {} THEN Min(I) ELSE 0
  BY DEF SelectInSeq
<1>2. I \in SUBSET Nat /\ Len(clients) \in Nat
  OBVIOUS
<1>3. I # {} => Min(I) \in I
  <2> HIDE DEF I
  <2> QED BY <1>2, LeastExists
<1>4. (IF I # {} THEN Min(I) ELSE 0) \in 0 .. Len(clients)
  BY <1>2, <1>3
<1> QED BY <1>1, <1>4, Zenon

LEMMA FirstAtThatAddress ==
  ASSUME clients \in Seq(Allocated), NEW a
  PROVE  SelectInSeq(clients, LAMBDA m : heap[m].addr = a) \in 0 .. Len(clients)
<1> DEFINE I == {j \in 1 .. Len(clients) : heap[clients[j]].addr = a}
<1>1. SelectInSeq(clients, LAMBDA m : heap[m].addr = a) = IF I # {} THEN Min(I) ELSE 0
  BY DEF SelectInSeq
<1>2. I \in SUBSET Nat /\ Len(clients) \in Nat
  OBVIOUS
<1>3. I # {} => Min(I) \in I
  <2> HIDE DEF I
  <2> QED BY <1>2, LeastExists
<1>4. (IF I # {} THEN Min(I) ELSE 0) \in 0 .. Len(clients)
  BY <1>2, <1>3
<1> QED BY <1>1, <1>4, Zenon

LEMMA FindByNameListed ==
  ASSUME clients \in Seq(Allocated), NEW x
  PROVE  FindByName(x) \in Allocated \cup {NULL}
<1>1. \A i \in 0 .. Len(clients) : NodeAt(i) \in Allocated \cup {NULL}
  BY DEF NodeAt
<1> QED BY <1>1, FirstOfThatName DEF FindByName, SelectInSeq

LEMMA FindByAddressListed ==
  ASSUME clients \in Seq(Allocated), NEW a
  PROVE  FindByAddress(a) \in Allocated \cup {NULL}
<1>1. \A i \in 0 .. Len(clients) : NodeAt(i) \in Allocated \cup {NULL}
  BY DEF NodeAt
<1> QED BY <1>1, FirstAtThatAddress DEF FindByAddress, SelectInSeq

LEMMA RemoveAtElements ==
  ASSUME NEW S, NEW s \in Seq(S), NEW i \in 1 .. Len(s)
  PROVE  /\ RemoveAt(s, i) \in Seq(S)
         /\ Len(RemoveAt(s, i)) = Len(s) - 1
         /\ \A j \in 1 .. Len(s) - 1 :
              RemoveAt(s, i)[j] = IF j < i THEN s[j] ELSE s[j + 1]
<1> DEFINE front == SubSeq(s, 1, i - 1)
           back == SubSeq(s, i + 1, Len(s))
<1>1. front \in Seq(S) /\ back \in Seq(S)
  OBVIOUS
<1>2. Len(front) = i - 1 /\ Len(back) = Len(s) - i
  OBVIOUS
<1>3. \A j \in 1 .. i - 1 : front[j] = s[j]
  OBVIOUS
<1>4. \A j \in 1 .. Len(s) - i : back[j] = s[i + j]
  OBVIOUS
<1>5. RemoveAt(s, i) = front \o back
  BY DEF RemoveAt
<1> HIDE DEF front, back
<1>6. front \o back \in Seq(S)
  BY <1>1
<1>7. Len(front \o back) = Len(s) - 1
  BY <1>1, <1>2
<1>8. \A j \in 1 .. Len(s) - 1 : (front \o back)[j] = IF j < i THEN s[j] ELSE s[j + 1]
  <2> SUFFICES ASSUME NEW j \in 1 .. Len(s) - 1
               PROVE  (front \o back)[j] = IF j < i THEN s[j] ELSE s[j + 1]
    OBVIOUS
  <2>1. (front \o back)[j] = IF j <= Len(front) THEN front[j] ELSE back[j - Len(front)]
    BY <1>1, <1>2, ConcatProperties
  <2>2. CASE j < i
    BY <2>1, <2>2, <1>2, <1>3
  <2>3. CASE ~(j < i)
    <3>1. j - (i - 1) \in 1 .. Len(s) - i
      BY <2>3
    <3>2. back[j - (i - 1)] = s[i + (j - (i - 1))]
      BY <3>1, <1>4
    <3> QED BY <2>1, <2>3, <3>2, <1>2
  <2> QED BY <2>2, <2>3
<1> QED BY <1>5, <1>6, <1>7, <1>8

-----------------------------------------------------------------------------
\* The list and the heap in agreement, and what any change of them respects.
ListOK == /\ heap \in Seq(ClientNode)
          /\ clients \in Seq(Allocated)
          /\ ListMatchesHeap

ListStep ==
  /\ Allocated \subseteq Allocated'
  /\ \A n \in Allocated : /\ Live(n)' => Live(n)
                          /\ heap'[n].addr = heap[n].addr
  /\ clients # <<>> =>
       \/ clients' # <<>> /\ clients'[1] = clients[1]
       \/ /\ ~heap'[clients[1]].live
          /\ clients' # <<>> => Len(clients) > 1 /\ clients'[1] = clients[2]

LEMMA HeadIsListed ==
  ASSUME ListOK, NEW n \in Allocated, Live(n)
  PROVE  clients # <<>>
BY DEF ListOK, ListMatchesHeap, Live, ToSet

LEMMA AddClientKeepsList ==
  ASSUME ListOK, NEW a \in Addr, NEW x \in Name, AddClient(a, x)
  PROVE  ListOK' /\ ListStep
<1> DEFINE new == [addr |-> a, name |-> x, live |-> TRUE]
           k == Len(heap) + 1
<1>0. new \in ClientNode /\ new.live /\ Len(heap) \in Nat /\ Len(clients) \in Nat
  BY DEF ListOK, ClientNode
<1>1. heap' = Append(heap, new) /\ clients' = Append(clients, k)
  BY DEF AddClient
<1> HIDE DEF new
<1>2. heap' \in Seq(ClientNode) /\ Len(heap') = k
  BY <1>0, <1>1 DEF ListOK
<1>3. Allocated = 1 .. Len(heap) /\ Allocated' = 1 .. k
  BY <1>2 DEF ListOK, Allocated
<1>4. /\ \A n \in Allocated : heap'[n] = heap[n]
      /\ heap'[k] = new
  BY <1>0, <1>1, <1>3 DEF ListOK
<1>5. clients' \in Seq(Allocated') /\ Len(clients') = Len(clients) + 1
  <2>1. clients \in Seq(Allocated') /\ k \in Allocated'
    BY <1>0, <1>3 DEF ListOK
  <2> QED BY <2>1, <1>1
<1>6. /\ \A j \in 1 .. Len(clients) : clients'[j] = clients[j]
      /\ clients'[Len(clients) + 1] = k
  BY <1>0, <1>1 DEF ListOK
<1>7. ToSet(clients)' = ToSet(clients) \cup {k}
  <2>1. DOMAIN clients' = 1 .. Len(clients) + 1 /\ DOMAIN clients = 1 .. Len(clients)
    BY <1>5, <1>0 DEF ListOK
  <2> QED BY <2>1, <1>6, <1>0 DEF ToSet
<1>8. ToSet(clients)' = {n \in Allocated : heap[n].live}'
  <2>1. ToSet(clients) = {n \in Allocated : heap[n].live}
    BY DEF ListOK, ListMatchesHeap
  <2> QED BY <2>1, <1>7, <1>3, <1>4, <1>0
<1>9. IsInjective(clients)'
  <2>1. IsInjective(clients) /\ \A j \in 1 .. Len(clients) : clients[j] # k
    BY <1>0, <1>3 DEF ListOK, ListMatchesHeap
  <2>2. DOMAIN clients' = 1 .. Len(clients) + 1 /\ DOMAIN clients = 1 .. Len(clients)
    BY <1>5, <1>0 DEF ListOK
  <2> QED BY <2>1, <2>2, <1>6, <1>0 DEF IsInjective
<1>10. ListStep
  <2>1. \A n \in Allocated : (Live(n)' => Live(n)) /\ heap'[n].addr = heap[n].addr
    BY <1>4 DEF Live
  <2>2. clients # <<>> => clients' # <<>> /\ clients'[1] = clients[1]
    BY <1>5, <1>6, <1>0 DEF ListOK
  <2> QED BY <2>1, <2>2, <1>3, <1>0 DEF ListStep
<1> QED BY <1>2, <1>5, <1>8, <1>9, <1>10 DEF ListOK, ListMatchesHeap

LEMMA RemoveClientCases ==
  ASSUME clients \in Seq(Allocated), NEW x, RemoveClient(x)
  PROVE  \/ UNCHANGED listVars
         \/ \E i \in 1 .. Len(clients) : /\ clients' = RemoveAt(clients, i)
                                         /\ heap' = [heap EXCEPT ![clients[i]].live = FALSE]
<1> DEFINE I == {j \in 1 .. Len(clients) : heap[clients[j]].name = x}
           i == IF I # {} THEN Min(I) ELSE 0
<1>1. i \in 0 .. Len(clients)
  BY FirstOfThatName DEF SelectInSeq
<1>2. IF i = 0 THEN UNCHANGED listVars
      ELSE /\ clients' = RemoveAt(clients, i)
           /\ heap' = [heap EXCEPT ![clients[i]].live = FALSE]
  BY DEF RemoveClient, SelectInSeq
<1>3. CASE i = 0
  BY <1>2, <1>3
<1>4. CASE i # 0
  <2>1. i \in 1 .. Len(clients)
    BY <1>1, <1>4
  <2>2. /\ clients' = RemoveAt(clients, i)
        /\ heap' = [heap EXCEPT ![clients[i]].live = FALSE]
    BY <1>2, <1>4
  <2> HIDE DEF i
  <2> QED BY <2>1, <2>2
<1> QED BY <1>3, <1>4

LEMMA NodeChange ==
  ASSUME heap \in Seq(ClientNode), NEW n \in Allocated, NEW node \in ClientNode,
         heap' = [heap EXCEPT ![n] = node]
  PROVE  /\ heap' \in Seq(ClientNode)
         /\ Allocated' = Allocated
         /\ \A m \in Allocated : heap'[m] = IF m = n THEN node ELSE heap[m]
BY ExceptSeq DEF Allocated

LEMMA RemoveClientKeepsList ==
  ASSUME ListOK, NEW x, RemoveClient(x)
  PROVE  ListOK' /\ ListStep
<1>1. CASE UNCHANGED listVars
  BY <1>1 DEF listVars, ListOK, ListStep, ListMatchesHeap, Live, Allocated
<1>2. CASE ~UNCHANGED listVars
  <2>1. PICK i \in 1 .. Len(clients) :
               /\ clients' = RemoveAt(clients, i)
               /\ heap' = [heap EXCEPT ![clients[i]].live = FALSE]
    BY <1>2, RemoveClientCases DEF ListOK
  <2> DEFINE k == clients[i]
  <2>2. k \in Allocated /\ Len(clients) \in Nat /\ DOMAIN clients = 1 .. Len(clients)
    BY DEF ListOK
  <2> DEFINE freed == [heap[k] EXCEPT !.live = FALSE]
  <2>3. freed \in ClientNode /\ ~freed.live /\ freed.addr = heap[k].addr
    <3>1. heap[k] \in ClientNode
      BY <2>2 DEF ListOK, Allocated
    <3> HIDE DEF k
    <3> QED BY <3>1 DEF ClientNode
  <2>4. /\ heap' \in Seq(ClientNode)
        /\ Allocated' = Allocated
        /\ \A n \in Allocated : heap'[n] = IF n = k THEN freed ELSE heap[n]
    <3> HIDE DEF k
    <3>1. heap' = [heap EXCEPT ![k] = freed]
      BY <2>1 DEF k
    <3> HIDE DEF freed
    <3> QED BY <3>1, <2>2, <2>3, NodeChange DEF ListOK
  <2> HIDE DEF freed
  <2>5. /\ \A n \in Allocated : n # k => heap'[n] = heap[n]
        /\ ~heap'[k].live /\ heap'[k].addr = heap[k].addr
    BY <2>2, <2>3, <2>4
  <2>6. /\ clients' \in Seq(Allocated)
        /\ Len(clients') = Len(clients) - 1
        /\ \A j \in 1 .. Len(clients) - 1 :
             clients'[j] = IF j < i THEN clients[j] ELSE clients[j + 1]
    BY <2>1, RemoveAtElements DEF ListOK
  <2>7. IsInjective(clients)
    BY DEF ListOK, ListMatchesHeap
  <2>8. DOMAIN clients' = 1 .. Len(clients) - 1
    BY <2>6, <2>2
  <2>9. ToSet(clients)' = ToSet(clients) \ {k}
    <3>1. \A j \in 1 .. Len(clients) - 1 : clients'[j] \in ToSet(clients) \ {k}
      <4> SUFFICES ASSUME NEW j \in 1 .. Len(clients) - 1
                   PROVE  clients'[j] \in ToSet(clients) \ {k}
        OBVIOUS
      <4>1. \A l \in 1 .. Len(clients) : l # i => clients[l] \in ToSet(clients) \ {k}
        BY <2>2, <2>7 DEF ToSet, IsInjective
      <4>2. CASE j < i
        BY <4>1, <4>2, <2>2, <2>6
      <4>3. CASE ~(j < i)
        BY <4>1, <4>3, <2>2, <2>6
      <4> QED BY <4>2, <4>3
    <3>2. \A j \in 1 .. Len(clients) : j < i => clients'[j] = clients[j]
      BY <2>2, <2>6
    <3>3. \A j \in 1 .. Len(clients) : j > i => clients'[j - 1] = clients[j]
      BY <2>2, <2>6
    <3>4. \A j \in 1 .. Len(clients) :
            j # i => \E l \in 1 .. Len(clients) - 1 : clients'[l] = clients[j]
      <4> SUFFICES ASSUME NEW j \in 1 .. Len(clients), j # i
                   PROVE  \E l \in 1 .. Len(clients) - 1 : clients'[l] = clients[j]
        OBVIOUS
      <4>1. CASE j < i
        BY <4>1, <3>2, <2>2
      <4>2. CASE j > i
        BY <4>2, <3>3, <2>2
      <4> QED BY <4>1, <4>2, <2>2
    <3>5. ToSet(clients)' \subseteq ToSet(clients) \ {k}
      BY <3>1, <2>8 DEF ToSet
    <3>6. ToSet(clients) \ {k} \subseteq ToSet(clients)'
      <4> SUFFICES ASSUME NEW n \in ToSet(clients) \ {k}
                   PROVE  n \in ToSet(clients)'
        OBVIOUS
      <4>1. PICK j \in 1 .. Len(clients) : n = clients[j] /\ j # i
        BY <2>2 DEF ToSet
      <4> QED BY <4>1, <3>4, <2>8 DEF ToSet
    <3> QED BY <3>5, <3>6
  <2>10. ToSet(clients)' = {n \in Allocated : heap[n].live}'
    BY <2>9, <2>4, <2>5 DEF ListOK, ListMatchesHeap
  <2>11. IsInjective(clients)'
    BY <2>2, <2>6, <2>7, <2>8 DEF IsInjective
  <2>12. \A n \in Allocated : (Live(n)' => Live(n)) /\ heap'[n].addr = heap[n].addr
    BY <2>2, <2>4, <2>5 DEF Live
  <2>13. ASSUME i = 1 PROVE ListStep
    <3>1. ~heap'[clients[1]].live
      BY <2>13, <2>5
    <3>2. clients' # <<>> => Len(clients) > 1 /\ clients'[1] = clients[2]
      BY <2>13, <2>2, <2>6
    <3> QED BY <3>1, <3>2, <2>4, <2>12 DEF ListStep
  <2>14. ASSUME i > 1 PROVE ListStep
    <3>1. clients' # <<>> /\ clients'[1] = clients[1]
      BY <2>14, <2>2, <2>6
    <3> QED BY <3>1, <2>4, <2>12 DEF ListStep
  <2>15. i = 1 \/ i > 1
    OBVIOUS
  <2> QED BY <2>4, <2>6, <2>10, <2>11, <2>13, <2>14, <2>15 DEF ListOK, ListMatchesHeap
<1> QED BY <1>1, <1>2

LEMMA RenameClientKeepsList ==
  ASSUME ListOK, NEW n \in Allocated, NEW x \in Name, RenameClient(n, x)
  PROVE  ListOK' /\ ListStep
<1> DEFINE renamed == [heap[n] EXCEPT !.name = x]
<1>1. renamed \in ClientNode /\ renamed.live = heap[n].live /\ renamed.addr = heap[n].addr
  <2>1. heap[n] \in ClientNode
    BY DEF ListOK, Allocated
  <2> QED BY <2>1 DEF ClientNode
<1>2. /\ heap' \in Seq(ClientNode)
      /\ Allocated' = Allocated
      /\ \A m \in Allocated : heap'[m] = IF m = n THEN renamed ELSE heap[m]
  <2>1. heap' = [heap EXCEPT ![n] = renamed]
    BY DEF RenameClient
  <2> HIDE DEF renamed
  <2> QED BY <2>1, <1>1, NodeChange DEF ListOK
<1>3. /\ clients' = clients
      /\ \A m \in Allocated : heap'[m].live = heap[m].live /\ heap'[m].addr = heap[m].addr
  <2> HIDE DEF renamed
  <2> QED BY <1>1, <1>2 DEF RenameClient
<1>4. ListOK'
  BY <1>2, <1>3 DEF ListOK, ListMatchesHeap
<1> QED BY <1>2, <1>3, <1>4 DEF ListStep, Live

\* What the searches find: a client on the list that fits, or NULL where none does.
LEMMA FoundByName ==
  ASSUME ListOK, NEW x, NEW n, n = FindByName(x)
  PROVE  /\ n # NULL => n \in Allocated /\ Live(n) /\ heap[n].name = x
         /\ n = NULL => \A m \in Allocated : Live(m) => heap[m].name # x
<1> DEFINE I == {j \in 1 .. Len(clients) : heap[clients[j]].name = x}
           i == IF I # {} THEN Min(I) ELSE 0
<1>0. clients \in Seq(Allocated) /\ ToSet(clients) = {m \in Allocated : Live(m)}
  BY DEF ListOK, ListMatchesHeap, Live
<1>1. Len(clients) \in Nat /\ DOMAIN clients = 1 .. Len(clients) /\ 0 \notin Allocated
  BY <1>0 DEF ListOK, Allocated
<1>2. n = IF i = 0 THEN NULL ELSE clients[i]
  BY DEF FindByName, SelectInSeq, NodeAt
<1>3. I # {} => i \in I
  <2>1. I \in SUBSET Nat
    BY <1>1
  <2> HIDE DEF I
  <2> QED BY <2>1, LeastExists
<1>4. CASE I # {}
  <2>1. i \in 1 .. Len(clients) /\ heap[clients[i]].name = x
    BY <1>3, <1>4
  <2> HIDE DEF i
  <2>2. n = clients[i] /\ clients[i] \in ToSet(clients)
    BY <1>1, <1>2, <2>1 DEF ToSet
  <2> QED BY <1>0, <1>1, <2>1, <2>2 DEF NULL
<1>5. CASE I = {}
  <2>1. \A m \in ToSet(clients) : heap[m].name # x
    BY <1>1, <1>5 DEF ToSet
  <2> QED BY <1>0, <1>2, <1>5, <2>1
<1> QED BY <1>4, <1>5

LEMMA FoundByAddress ==
  ASSUME ListOK, NEW a, NEW n, n = FindByAddress(a)
  PROVE  /\ n # NULL => n \in Allocated /\ Live(n) /\ heap[n].addr = a
         /\ n = NULL => \A m \in Allocated : Live(m) => heap[m].addr # a
<1> DEFINE I == {j \in 1 .. Len(clients) : heap[clients[j]].addr = a}
           i == IF I # {} THEN Min(I) ELSE 0
<1>0. clients \in Seq(Allocated) /\ ToSet(clients) = {m \in Allocated : Live(m)}
  BY DEF ListOK, ListMatchesHeap, Live
<1>1. Len(clients) \in Nat /\ DOMAIN clients = 1 .. Len(clients) /\ 0 \notin Allocated
  BY <1>0 DEF ListOK, Allocated
<1>2. n = IF i = 0 THEN NULL ELSE clients[i]
  BY DEF FindByAddress, SelectInSeq, NodeAt
<1>3. I # {} => i \in I
  <2>1. I \in SUBSET Nat
    BY <1>1
  <2> HIDE DEF I
  <2> QED BY <2>1, LeastExists
<1>4. CASE I # {}
  <2>1. i \in 1 .. Len(clients) /\ heap[clients[i]].addr = a
    BY <1>3, <1>4
  <2> HIDE DEF i
  <2>2. n = clients[i] /\ clients[i] \in ToSet(clients)
    BY <1>1, <1>2, <2>1 DEF ToSet
  <2> QED BY <1>0, <1>1, <2>1, <2>2 DEF NULL
<1>5. CASE I = {}
  <2>1. \A m \in ToSet(clients) : heap[m].addr # a
    BY <1>1, <1>5 DEF ToSet
  <2> QED BY <1>0, <1>2, <1>5, <2>1
<1> QED BY <1>4, <1>5

\* remove_client_from_list frees the client that a search for the name finds, and
\* changes nothing else of any node.
LEMMA RemovedByName ==
  ASSUME ListOK, NEW x, RemoveClient(x)
  PROVE  /\ FindByName(x) = NULL => UNCHANGED listVars
         /\ FindByName(x) # NULL =>
              /\ Allocated' = Allocated
              /\ \A m \in Allocated :
                   heap'[m] = IF m = FindByName(x) THEN [heap[m] EXCEPT !.live = FALSE]
                              ELSE heap[m]
<1> DEFINE I == {j \in 1 .. Len(clients) : heap[clients[j]].name = x}
           i == IF I # {} THEN Min(I) ELSE 0
           n == FindByName(x)
<1>1. n = IF i = 0 THEN NULL ELSE clients[i]
  BY DEF FindByName, SelectInSeq, NodeAt
<1>2. IF i = 0 THEN UNCHANGED listVars
      ELSE /\ clients' = RemoveAt(clients, i)
           /\ heap' = [heap EXCEPT ![clients[i]].live = FALSE]
  BY DEF RemoveClient, SelectInSeq
<1>3. i \in 0 .. Len(clients)
  BY FirstOfThatName DEF ListOK, SelectInSeq
<1>4. heap \in Seq(ClientNode) /\ clients \in Seq(Allocated) /\ 0 \notin Allocated
  BY DEF ListOK, Allocated
<1> HIDE DEF I, i
<1>5. CASE i = 0
  BY <1>1, <1>2, <1>5
<1>6. CASE i # 0
  <2>1. n = clients[i] /\ n \in Allocated
    BY <1>1, <1>3, <1>4, <1>6
  <2> HIDE DEF n
  <2>2. PICK node : node = [heap[n] EXCEPT !.live = FALSE]
    OBVIOUS
  <2>3. node \in ClientNode
    <3>1. heap[n] \in ClientNode
      BY <1>4, <2>1 DEF Allocated
    <3> QED BY <2>2, <3>1 DEF ClientNode
  <2>4. heap' = [heap EXCEPT ![n] = node]
    BY <1>2, <1>6, <2>1, <2>2
  <2>5. /\ Allocated' = Allocated
        /\ \A m \in Allocated : heap'[m] = IF m = n THEN node ELSE heap[m]
    BY <1>4, <2>1, <2>3, <2>4, NodeChange
  <2>6. /\ Allocated' = Allocated
        /\ \A m \in Allocated :
             heap'[m] = IF m = n THEN [heap[n] EXCEPT !.live = FALSE] ELSE heap[m]
    BY <2>2, <2>5
  <2>7. n # NULL
    BY <2>1, <1>4 DEF NULL
  <2> QED BY <2>6, <2>7 DEF n
<1> QED BY <1>5, <1>6

LEMMA AddedNode ==
  ASSUME ListOK, NEW a \in Addr, NEW x \in Name, AddClient(a, x)
  PROVE  /\ Allocated' = Allocated \cup {Len(heap) + 1} /\ Len(heap) + 1 \notin Allocated
         /\ Len(heap') = Len(heap) + 1
         /\ \A m \in Allocated : heap'[m] = heap[m]
         /\ heap'[Len(heap) + 1] = [addr |-> a, name |-> x, live |-> TRUE]
<1> DEFINE new == [addr |-> a, name |-> x, live |-> TRUE]
<1>1. heap \in Seq(ClientNode) /\ new \in ClientNode /\ Len(heap) \in Nat
  BY DEF ListOK, ClientNode
<1>2. heap' = Append(heap, new)
  BY DEF AddClient
<1> HIDE DEF new
<1>3. /\ Len(heap') = Len(heap) + 1 /\ heap' \in Seq(ClientNode)
      /\ \A m \in 1 .. Len(heap) : heap'[m] = heap[m]
      /\ heap'[Len(heap) + 1] = new
  BY <1>1, <1>2
<1> QED BY <1>1, <1>3 DEF Allocated, new

LEMMA RenamedNode ==
  ASSUME ListOK, NEW n \in Allocated, NEW x \in Name, RenameClient(n, x)
  PROVE  /\ Allocated' = Allocated
         /\ \A m \in Allocated :
              heap'[m] = IF m = n THEN [heap[m] EXCEPT !.name = x] ELSE heap[m]
<1> DEFINE renamed == [heap[n] EXCEPT !.name = x]
<1>1. heap[n] \in ClientNode
  BY DEF ListOK, Allocated
<1>2. renamed \in ClientNode
  BY <1>1 DEF ClientNode
<1>3. heap' = [heap EXCEPT ![n] = renamed]
  BY DEF RenameClient
<1> HIDE DEF renamed
<1>4. \A m \in Allocated : heap'[m] = IF m = n THEN renamed ELSE heap[m]
  BY <1>2, <1>3, NodeChange DEF ListOK
<1>5. Allocated' = Allocated
  BY <1>2, <1>3, NodeChange DEF ListOK
<1> QED BY <1>4, <1>5 DEF renamed

\* The changes of the list, and everything that leaves it alone.
ListChange ==
  \/ \E a \in Addr, x \in Name : AddClient(a, x)
  \/ \E x : RemoveClient(x)
  \/ \E n \in Allocated, x \in Name : RenameClient(n, x)

LEMMA UnchangedIsListStep ==
  ASSUME ListOK, UNCHANGED listVars
  PROVE  ListOK' /\ ListStep
BY DEF listVars, ListOK, ListStep, ListMatchesHeap, Live, Allocated

LEMMA ListChangeKeepsList ==
  ASSUME ListOK, ListChange \/ UNCHANGED listVars
  PROVE  ListOK' /\ ListStep
BY AddClientKeepsList, RemoveClientKeepsList, RenameClientKeepsList,
   UnchangedIsListStep DEF ListChange
-----------------------------------------------------------------------------
\* What following pointers may do to the two flags of ClientList.
FaultsTyped == /\ misuse \subseteq [site : Site, of : {"null", "freed"}]
               /\ crashed \in BOOLEAN

LEMMA FollowKeepsFaults ==
  ASSUME FaultsTyped, NEW site \in Site, NEW pointers,
         Follow(site, pointers) \/ UNCHANGED faultVars
  PROVE  FaultsTyped'
<1>1. /\ [site |-> site, of |-> "null"] \in [site : Site, of : {"null", "freed"}]
      /\ [site |-> site, of |-> "freed"] \in [site : Site, of : {"null", "freed"}]
  OBVIOUS
<1> QED BY <1>1 DEF FaultsTyped, Follow, faultVars

LEMMA ListInitially ==
  ASSUME NEW members \in Seq([addr : Addr, name : Name]), ListInit(members)
  PROVE  /\ ListTypeOK /\ ListMatchesHeap
         /\ Allocated = DOMAIN members
         /\ \A n \in Allocated : /\ heap[n].addr = members[n].addr
                                 /\ heap[n].name = members[n].name /\ heap[n].live
<1> DEFINE N == Len(members)
<1>1. N \in Nat /\ DOMAIN members = 1 .. N
  BY LenProperties
<1>2. \A i \in 1 .. N : members[i] \in [addr : Addr, name : Name]
  BY ElementOfSeq
<1>3. heap = [i \in 1 .. N |-> [addr |-> members[i].addr, name |-> members[i].name,
                               live |-> TRUE]]
  BY <1>1 DEF ListInit
<1>4. clients = [i \in 1 .. N |-> i]
  BY <1>1 DEF ListInit
<1> HIDE DEF N
<1>5. heap \in [1 .. N -> ClientNode]
  BY <1>2, <1>3 DEF ClientNode
<1>6. heap \in Seq(ClientNode) /\ Allocated = 1 .. N
  BY <1>1, <1>5 DEF Allocated
<1>7. clients \in Seq(Allocated)
  BY <1>1, <1>4, <1>6
<1>8. \A n \in Allocated : /\ heap[n].addr = members[n].addr
                           /\ heap[n].name = members[n].name /\ heap[n].live
  BY <1>3, <1>6
<1>9. ListMatchesHeap
  <2>1. ToSet(clients) = 1 .. N
    BY <1>1, <1>4 DEF ToSet
  <2>2. IsInjective(clients)
    BY <1>4 DEF IsInjective
  <2> QED BY <2>1, <2>2, <1>6, <1>8 DEF ListMatchesHeap
<1>10. ListTypeOK
  BY <1>6, <1>7 DEF ListTypeOK, ListInit
<1> QED BY <1>1, <1>6, <1>8, <1>9, <1>10

\* *head and node->next lead to nodes on the list, which are not freed.
LEMMA FirstIsLive ==
  ASSUME ListOK
  PROVE  First = NULL \/ Live(First)
<1>1. clients # <<>> => clients[1] \in ToSet(clients)
  BY DEF ListOK, ToSet
<1> QED BY <1>1 DEF First, ListOK, ListMatchesHeap, Live

LEMMA SuccessorIsLive ==
  ASSUME ListOK, NEW n
  PROVE  Successor(n) = NULL \/ Live(Successor(n))
<1> DEFINE I == {j \in 1 .. Len(clients) : clients[j] = n}
           i == IF I # {} THEN Min(I) ELSE 0
<1>1. Successor(n) = IF i \in 1 .. Len(clients) - 1 THEN clients[i + 1] ELSE NULL
  BY DEF Successor, SelectInSeq
<1> HIDE DEF i
<1>2. i \in 1 .. Len(clients) - 1 => clients[i + 1] \in ToSet(clients)
  BY DEF ListOK, ToSet
<1> QED BY <1>1, <1>2 DEF ListOK, ListMatchesHeap, Live
=============================================================================
