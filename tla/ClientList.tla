------------------------------ MODULE ClientList ------------------------------
(****************************************************************************)
(* The server's linked list of clients as its threads see it: the nodes     *)
(* reachable from *head in order, and the heap that the nodes live in.  A   *)
(* removed node stays in the heap, marked freed, because threads may still  *)
(* hold pointers to it; freed memory is never handed out again as the same  *)
(* node, so a use of a pointer after the free is told apart from a right    *)
(* one even where malloc would reuse the block.                             *)
(****************************************************************************)
EXTENDS Integers, Sequences, SequencesExt

CONSTANTS Addr,   \* the clients' UDP addresses
          Name    \* the names that clients go by

VARIABLES clients,  \* *head, its next, and so on to NULL
          heap,     \* every client_node_t allocated so far, by node number
          misuse,   \* the uses of NULL or freed nodes so far
          crashed   \* the server process is gone

listVars == <<clients, heap>>
faultVars == <<misuse, crashed>>

NULL == 0
Allocated == DOMAIN heap
ClientNode == [addr : Addr, name : Name, live : BOOLEAN]

\* Where pointers to nodes are followed: the handlers and the two scans.
Site == {"activity", "say", "broadcast", "sayto", "disconnect", "rename", "announce",
         "connection_manager"}

ListTypeOK == /\ heap \in Seq(ClientNode)
              /\ clients \in Seq(Allocated)
              /\ misuse \subseteq [site : Site, of : {"null", "freed"}]
              /\ crashed \in BOOLEAN

ListInit(members) ==
  /\ heap = [i \in DOMAIN members |-> [addr |-> members[i].addr,
                                       name |-> members[i].name, live |-> TRUE]]
  /\ clients = [i \in DOMAIN members |-> i]
  /\ misuse = {} /\ crashed = FALSE

-----------------------------------------------------------------------------
\* What a pointer to a node is worth.
Live(n) == n \in Allocated /\ heap[n].live
Dangles(n) == n \in Allocated /\ ~heap[n].live

\* Following pointers: NULL crashes, a freed node may, a live one is fine.
Follow(site, pointers) ==
  \/ /\ NULL \in pointers
     /\ misuse' = misuse \cup {[site |-> site, of |-> "null"]}
     /\ crashed' = TRUE
  \/ /\ NULL \notin pointers
     /\ \E n \in pointers : Dangles(n)
     /\ misuse' = misuse \cup {[site |-> site, of |-> "freed"]}
     /\ crashed' \in BOOLEAN
  \/ /\ \A n \in pointers : Live(n)
     /\ UNCHANGED faultVars

\* *head, and node->next of a node on the list.
First == IF clients = <<>> THEN NULL ELSE clients[1]
Successor(n) ==
  LET i == SelectInSeq(clients, LAMBDA m : m = n)
  IN  IF i \in 1 .. Len(clients) - 1 THEN clients[i + 1] ELSE NULL

NodeAt(i) == IF i = 0 THEN NULL ELSE clients[i]

FindByAddress_OrLast(a) ==
  LET i == SelectInSeq(clients, LAMBDA m : heap[m].addr = a)
  IN  NodeAt(IF i = 0 THEN Len(clients) ELSE i)
FindByAddress_SkipsHead(a) ==
  NodeAt(SelectInSeq(clients, LAMBDA m : m # clients[1] /\ heap[m].addr = a))
FindByAddress(a) == NodeAt(SelectInSeq(clients, LAMBDA m : heap[m].addr = a))

FindByName(x) == NodeAt(SelectInSeq(clients, LAMBDA m : heap[m].name = x))

\* The client appended to the list is the last to become admin.
AddClient_AtFront(a, x) ==
  /\ heap' = Append(heap, [addr |-> a, name |-> x, live |-> TRUE])
  /\ clients' = <<Len(heap) + 1>> \o clients
AddClient(a, x) ==
  /\ heap' = Append(heap, [addr |-> a, name |-> x, live |-> TRUE])
  /\ clients' = Append(clients, Len(heap) + 1)

\* Unlinks and frees the first client of that name; no such client, no change.
RemoveClient_KeepsHead(x) ==
  LET i == SelectInSeq(clients, LAMBDA m : heap[m].name = x)
  IN  IF i = 0 THEN UNCHANGED listVars
      ELSE /\ clients' = IF i = 1 THEN clients ELSE RemoveAt(clients, i)
           /\ heap' = [heap EXCEPT ![clients[i]].live = FALSE]
RemoveClient(x) ==
  LET i == SelectInSeq(clients, LAMBDA m : heap[m].name = x)
  IN  IF i = 0 THEN UNCHANGED listVars
      ELSE /\ clients' = RemoveAt(clients, i)
           /\ heap' = [heap EXCEPT ![clients[i]].live = FALSE]

RenameClient(n, x) ==
  /\ heap' = [heap EXCEPT ![n].name = x]
  /\ UNCHANGED clients

-----------------------------------------------------------------------------
\* The list and the heap agree: the list holds each node that was added and not
\* removed, once, and no freed one (add_client_to_list, remove_client_from_list).
ListMatchesHeap ==
  /\ ToSet(clients) = {n \in Allocated : heap[n].live}
  /\ IsInjective(clients)

\* The list is in the order of arrival and the admin, its head, changes only
\* when the admin leaves: then the next to arrive takes over (README.md 130 and
\* 332; add_client_to_list appends, rename_client keeps the node).
AdminSuccession ==
  [][clients # <<>> /\ clients' # <<>> /\ clients'[1] # clients[1]
       => /\ ~heap'[clients[1]].live
          /\ Len(clients) > 1 => clients'[1] = clients[2]]_listVars
=============================================================================
