--------------------------- MODULE ClientScreenProofs ---------------------------
(****************************************************************************)
(* Proofs about the client's screen, for any number of server messages in   *)
(* handling, any texts, users and hash table.                               *)
(*                                                                          *)
(* First what the operations of custom_hash_table.h do to the set that a    *)
(* table stands for.  Then the screen: its inductive invariant says who     *)
(* holds which mutex, and whose text is in the static buffer.               *)
(****************************************************************************)
EXTENDS ClientScreen, TLAPS

LEMMA HashIsBucket == \A k \in Key : Hash[k] \in Bucket
BY HashAssumption DEF Bucket

\* A new table is the empty set.
LEMMA EmptyTableKeys ==
  EmptyTable \in Table /\ WellChained(EmptyTable) /\ Keys(EmptyTable) = {}
<1>1. EmptyTable \in Table
  BY DEF EmptyTable, Table
<1>2. \A b \in Bucket : EmptyTable[b] = <<>> /\ DOMAIN EmptyTable[b] = {}
  BY DEF EmptyTable
<1>3. WellChained(EmptyTable)
  BY <1>2 DEF WellChained
<1>4. Keys(EmptyTable) = {}
  BY <1>2, HashIsBucket DEF Keys, Contains
<1> QED
  BY <1>1, <1>3, <1>4

-----------------------------------------------------------------------------
\* A node put in front of a chain.
LEMMA InFront ==
  ASSUME NEW chain \in Seq(Key), NEW k \in Key
  PROVE  /\ <<k>> \o chain \in Seq(Key)
         /\ DOMAIN (<<k>> \o chain) = 1 .. Len(chain) + 1
         /\ (<<k>> \o chain)[1] = k
         /\ \A i \in 2 .. Len(chain) + 1 : (<<k>> \o chain)[i] = chain[i - 1]
OBVIOUS

\* insert (custom_hash_table.h 26-42) adds the key to the set.
LEMMA InsertAddsKey ==
  ASSUME NEW t \in Table, NEW k \in Key, WellChained(t)
  PROVE  /\ Insert(t, k) \in Table
         /\ WellChained(Insert(t, k))
         /\ Keys(Insert(t, k)) = Keys(t) \cup {k}
<1> DEFINE u == Insert(t, k)
           h == Hash[k]
<1>1. h \in Bucket /\ t[h] \in Seq(Key)
  BY HashIsBucket DEF Table
<1>2. CASE Contains(t, k)
  BY <1>2 DEF Insert, Keys
<1>3. CASE ~Contains(t, k)
  <2>1. u = [t EXCEPT ![h] = <<k>> \o t[h]]
    BY <1>3 DEF Insert
  <2>2. /\ u \in Table /\ u[h] = <<k>> \o t[h]
        /\ \A b \in Bucket \ {h} : u[b] = t[b]
    BY <1>1, <2>1, InFront DEF Table
  <2>3. /\ DOMAIN u[h] = 1 .. Len(t[h]) + 1 /\ u[h][1] = k
        /\ \A i \in 2 .. Len(t[h]) + 1 : u[h][i] = t[h][i - 1]
    BY <1>1, <2>2, InFront
  <2>4. \A i \in DOMAIN t[h] : i \in Nat /\ i >= 1 /\ i <= Len(t[h]) /\ t[h][i] # k
    BY <1>1, <1>3 DEF Contains
  <2>5. DOMAIN t[h] = 1 .. Len(t[h]) /\ Len(t[h]) \in Nat
    BY <1>1
  <2>6. WellChained(u)
    <3> SUFFICES ASSUME NEW b \in Bucket, NEW i \in DOMAIN u[b], NEW j \in DOMAIN u[b]
                 PROVE  Hash[u[b][i]] = b /\ (u[b][i] = u[b][j] => i = j)
      BY DEF WellChained
    <3>1. CASE b # h
      BY <3>1, <2>2 DEF WellChained
    <3>2. CASE b = h
      <4>1. \A x \in DOMAIN u[h] : x = 1 \/ (x \in 2 .. Len(t[h]) + 1 /\ x - 1 \in DOMAIN t[h])
        BY <2>3, <2>5
      <4>2. \A x, y \in DOMAIN t[h] : Hash[t[h][x]] = h /\ (t[h][x] = t[h][y] => x = y)
        BY <1>1 DEF WellChained
      <4>3. Hash[u[b][i]] = b
        BY <3>2, <4>1, <4>2, <2>3
      <4>4. ASSUME u[b][i] = u[b][j] PROVE i = j
        <5>1. \A x \in DOMAIN u[h] : x # 1 => u[h][x] = t[h][x - 1] /\ u[h][x] # k
          BY <4>1, <2>3, <2>4
        <5>2. CASE i = 1 \/ j = 1
          BY <3>2, <4>4, <5>1, <5>2, <2>3
        <5>3. CASE i # 1 /\ j # 1
          <6>1. i - 1 = j - 1
            BY <3>2, <4>1, <4>2, <4>4, <5>1, <5>3
          <6>2. i \in Int /\ j \in Int
            BY <3>2, <2>3, <2>5
          <6> QED
            BY <6>1, <6>2
        <5> QED
          BY <5>2, <5>3
      <4> QED
        BY <4>3, <4>4
    <3> QED
      BY <3>1, <3>2
  <2>7. Keys(u) = Keys(t) \cup {k}
    <3>1. ASSUME NEW x \in Key, Contains(u, x) PROVE Contains(t, x) \/ x = k
      <4>1. CASE Hash[x] # h
        BY <3>1, <4>1, <2>2, HashIsBucket DEF Contains
      <4>2. CASE Hash[x] = h
        <5>1. PICK i \in DOMAIN u[h] : u[h][i] = x
          BY <3>1, <4>2 DEF Contains
        <5>2. CASE i = 1
          BY <5>1, <5>2, <2>3
        <5>3. CASE i # 1
          <6>1. i - 1 \in DOMAIN t[h] /\ t[h][i - 1] = x
            BY <5>1, <5>3, <2>3, <2>5
          <6> QED
            BY <6>1, <4>2 DEF Contains
        <5> QED
          BY <5>2, <5>3
      <4> QED
        BY <4>1, <4>2
    <3>2. Contains(u, k)
      <4>1. 1 \in DOMAIN u[h] /\ u[h][1] = k
        BY <2>3, <2>5
      <4> QED
        BY <4>1 DEF Contains
    <3>3. ASSUME NEW x \in Key, Contains(t, x) PROVE Contains(u, x)
      <4>1. CASE Hash[x] # h
        BY <3>3, <4>1, <2>2, HashIsBucket DEF Contains
      <4>2. CASE Hash[x] = h
        <5>1. PICK i \in DOMAIN t[h] : t[h][i] = x
          BY <3>3, <4>2 DEF Contains
        <5>2. i + 1 \in DOMAIN u[h] /\ u[h][i + 1] = x
          BY <5>1, <2>3, <2>5
        <5> QED
          BY <5>2, <4>2 DEF Contains
      <4> QED
        BY <4>1, <4>2
    <3> QED
      BY <3>1, <3>2, <3>3 DEF Keys
  <2> QED
    BY <2>2, <2>6, <2>7
<1> QED
  BY <1>2, <1>3
-----------------------------------------------------------------------------
\* A node unlinked from a chain.
LEMMA Unlinked ==
  ASSUME NEW chain \in Seq(Key), NEW p \in DOMAIN chain
  PROVE  /\ Unlink(chain, p) \in Seq(Key)
         /\ DOMAIN Unlink(chain, p) = 1 .. Len(chain) - 1
         /\ \A i \in 1 .. Len(chain) - 1 :
              Unlink(chain, p)[i] = IF i < p THEN chain[i] ELSE chain[i + 1]
<1>1. /\ Len(chain) \in Nat /\ DOMAIN chain = 1 .. Len(chain)
      /\ \A i \in 1 .. Len(chain) : chain[i] \in Key
  OBVIOUS
<1>2. p \in 1 .. Len(chain) /\ Len(chain) - 1 \in Nat
  BY <1>1
<1>3. \A i \in 1 .. Len(chain) - 1 :
        (IF i < p THEN chain[i] ELSE chain[i + 1]) \in Key
  BY <1>1, <1>2
<1>4. Unlink(chain, p) \in [1 .. Len(chain) - 1 -> Key]
  BY <1>3 DEF Unlink
<1> QED
  BY <1>2, <1>4 DEF Unlink

\* remove_key (custom_hash_table.h 58-78) takes the key out of the set and leaves
\* every other key where it is reached.
LEMMA RemoveKeyRemoves ==
  ASSUME NEW t \in Table, NEW k \in Key, WellChained(t)
  PROVE  /\ RemoveKey(t, k) \in Table
         /\ WellChained(RemoveKey(t, k))
         /\ Keys(RemoveKey(t, k)) = Keys(t) \ {k}
<1> DEFINE u == RemoveKey(t, k)
           h == Hash[k]
           p == Position(t[h], k)
           Old(i) == IF i < p THEN i ELSE i + 1
<1>1. h \in Bucket /\ t[h] \in Seq(Key)
  BY HashIsBucket DEF Table
<1>2. CASE ~Contains(t, k)
  BY <1>2 DEF RemoveKey, Keys
<1>3. CASE Contains(t, k)
  <2>1. p \in DOMAIN t[h] /\ t[h][p] = k
    BY <1>3 DEF Contains, Position
  <2>2. u = [t EXCEPT ![h] = Unlink(t[h], p)]
    BY <1>3 DEF RemoveKey
  <2>3. /\ u \in Table /\ u[h] = Unlink(t[h], p)
        /\ \A b \in Bucket \ {h} : u[b] = t[b]
    BY <1>1, <2>1, <2>2, Unlinked DEF Table
  <2>4. Len(t[h]) \in Nat /\ DOMAIN t[h] = 1 .. Len(t[h]) /\ p \in 1 .. Len(t[h])
    BY <1>1, <2>1
  <2>5. /\ DOMAIN u[h] = 1 .. Len(t[h]) - 1
        /\ \A i \in DOMAIN u[h] : i \in Int /\ Old(i) \in DOMAIN t[h] \ {p}
                                /\ u[h][i] = t[h][Old(i)]
    <3>1. /\ DOMAIN u[h] = 1 .. Len(t[h]) - 1
          /\ \A i \in 1 .. Len(t[h]) - 1 :
               u[h][i] = IF i < p THEN t[h][i] ELSE t[h][i + 1]
      BY <1>1, <2>1, <2>3, Unlinked
    <3> QED
      BY <3>1, <2>4
  <2>6. \A x, y \in DOMAIN t[h] : Hash[t[h][x]] = h /\ (t[h][x] = t[h][y] => x = y)
    BY <1>1 DEF WellChained
  <2>7. \A x \in DOMAIN t[h] \ {p} : \E i \in DOMAIN u[h] : Old(i) = x
    <3> SUFFICES ASSUME NEW x \in DOMAIN t[h] \ {p} PROVE \E i \in DOMAIN u[h] : Old(i) = x
      OBVIOUS
    <3>1. CASE x < p
      BY <3>1, <2>4, <2>5
    <3>2. CASE x > p
      <4>1. x - 1 \in DOMAIN u[h] /\ Old(x - 1) = x
        BY <3>2, <2>4, <2>5
      <4> QED
        BY <4>1
    <3> QED
      BY <3>1, <3>2, <2>4
  <2>8. WellChained(u)
    <3> SUFFICES ASSUME NEW b \in Bucket, NEW i \in DOMAIN u[b], NEW j \in DOMAIN u[b]
                 PROVE  Hash[u[b][i]] = b /\ (u[b][i] = u[b][j] => i = j)
      BY DEF WellChained
    <3>1. CASE b # h
      BY <3>1, <2>3 DEF WellChained
    <3>2. CASE b = h
      <4>1. Hash[u[b][i]] = b
        BY <3>2, <2>5, <2>6
      <4>2. ASSUME u[b][i] = u[b][j] PROVE i = j
        <5>1. Old(i) = Old(j)
          BY <3>2, <4>2, <2>5, <2>6
        <5> QED
          BY <3>2, <5>1, <2>4, <2>5
      <4> QED
        BY <4>1, <4>2
    <3> QED
      BY <3>1, <3>2
  <2>9. Keys(u) = Keys(t) \ {k}
    <3>1. ASSUME NEW x \in Key, Hash[x] # h PROVE Contains(u, x) <=> Contains(t, x)
      BY <3>1, <2>3, HashIsBucket DEF Contains
    <3>2. ASSUME NEW x \in Key, Hash[x] = h
          PROVE  Contains(u, x) <=> Contains(t, x) /\ x # k
      <4>1. ASSUME Contains(u, x) PROVE Contains(t, x) /\ x # k
        <5>1. PICK i \in DOMAIN u[h] : u[h][i] = x
          BY <3>2, <4>1 DEF Contains
        <5>2. Old(i) \in DOMAIN t[h] \ {p} /\ t[h][Old(i)] = x
          BY <5>1, <2>5
        <5> QED
          BY <3>2, <5>2, <2>1, <2>6 DEF Contains
      <4>2. ASSUME Contains(t, x), x # k PROVE Contains(u, x)
        <5>1. PICK y \in DOMAIN t[h] : t[h][y] = x
          BY <3>2, <4>2 DEF Contains
        <5>2. PICK i \in DOMAIN u[h] : Old(i) = y
          BY <4>2, <5>1, <2>1, <2>7
        <5>3. u[h][i] = x
          BY <5>1, <5>2, <2>5
        <5> QED
          BY <3>2, <5>3 DEF Contains
      <4> QED
        BY <4>1, <4>2
    <3> QED
      BY <3>1, <3>2 DEF Keys
  <2> QED
    BY <2>3, <2>8, <2>9
<1> QED
  BY <1>2, <1>3

-----------------------------------------------------------------------------
\* A mutex is held across steps by exactly the thread that is between the two.
MutexOwners ==
  /\ messages_mutex = Display <=> display \in {"draw", "prompt"}
  /\ connection_mutex = Display <=> display \in {"first", "prompt"}
  /\ \A h \in Handler : /\ handler[h].pc \in {"naming", "prompting"} <=> connection_mutex = h
                        /\ handler[h].pc \in {"store", "renaming"} <=> messages_mutex = h

\* A text on its way is neither shown nor on its way twice; of what may be in the
\* static buffer when it is stored, only error$ is not the text itself.
Says(h) == handler[h].pc \in {"say", "store"}
TextsOnTheirWay ==
  \A h \in Handler : Says(h) =>
    /\ handler[h].arg \in Text
    /\ \A i \in DOMAIN messages : messages[i] # handler[h].arg
    /\ \A g \in Handler : Says(g) /\ handler[g].arg = handler[h].arg => g = h
    /\ handler[h].pc = "store" => result \in {handler[h].arg, ErrorText}

IInv == TypeOK /\ MutexOwners /\ TextsOnTheirWay /\ SaysKeptApart /\ TableIsSet

-----------------------------------------------------------------------------
LEMMA InvariantInit == Init => IInv
<1> SUFFICES ASSUME Init PROVE IInv
  OBVIOUS
<1>1. \A h \in Handler : handler[h] = IdleHandler /\ handler[h].pc = "idle"
  BY DEF Init, IdleHandler
<1>2. IdleHandler \in [pc : HandlerPc, arg : Text \cup {Nothing}]
  BY DEF IdleHandler, HandlerPc
<1>3. handler \in [Handler -> [pc : HandlerPc, arg : Text \cup {Nothing}]]
  BY <1>2 DEF Init
<1>4. TypeOK
  <2>1. messages \in Seq(Text \cup {ErrorText}) /\ muted \subseteq Key
    BY DEF Init
  <2> QED
    BY <1>1, <1>3, <2>1, EmptyTableKeys DEF Init, TypeOK
<1>5. MutexOwners
  BY <1>1, ScreenAssumption DEF Init, MutexOwners, Free, Display
<1>6. TextsOnTheirWay
  BY <1>1 DEF TextsOnTheirWay, Says
<1>7. SaysKeptApart /\ TableIsSet
  BY EmptyTableKeys DEF Init, SaysKeptApart, TableIsSet
<1> QED
  BY <1>4, <1>5, <1>6, <1>7 DEF IInv

-----------------------------------------------------------------------------
\* What one handler's move does to the others, which is nothing.
LEMMA Moves ==
  ASSUME TypeOK, NEW h \in Handler, NEW new \in [pc : HandlerPc, arg : Text \cup {Nothing}],
         handler' = [handler EXCEPT ![h] = new],
         new.pc = "say" => new.arg \in Text
  PROVE  /\ handler' \in [Handler -> [pc : HandlerPc, arg : Text \cup {Nothing}]]
         /\ handler'[h] = new
         /\ \A g \in Handler \ {h} : handler'[g] = handler[g]
         /\ \A g \in Handler : handler'[g].pc = "say" => handler'[g].arg \in Text
BY DEF TypeOK

\* A message arrives and gets a thread; a say$ brings a new text.
LEMMA ArrivalStep ==
  ASSUME IInv, NEW h \in Handler,
         (\E t \in Text : ArriveSay(h, t)) \/ ArriveOther(h)
  PROVE  IInv'
<1> USE DEF IInv
<1>1. PICK pc \in {"say", "connect", "disconnect", "error", "rename", "mute", "unmute"},
           arg \in Text \cup {Nothing} :
        /\ Handle(h, pc, arg)
        /\ pc = "say" => arg \in Text /\ arg \notin Range(messages) \cup Saying
  <2>1. CASE \E t \in Text : ArriveSay(h, t)
    BY <2>1 DEF ArriveSay
  <2>2. CASE ArriveOther(h)
    BY <2>2 DEF ArriveOther
  <2> QED
    BY <2>1, <2>2
<1> DEFINE new == [pc |-> pc, arg |-> arg]
<1>2. /\ handler[h].pc = "idle" /\ handler' = [handler EXCEPT ![h] = new]
      /\ UNCHANGED <<mutexVars, shownVars, display, promptVars>>
  BY <1>1 DEF Handle, At
<1>3. new \in [pc : HandlerPc, arg : Text \cup {Nothing}]
  BY DEF HandlerPc
<1>4. /\ handler' \in [Handler -> [pc : HandlerPc, arg : Text \cup {Nothing}]]
      /\ handler'[h] = new
      /\ \A g \in Handler \ {h} : handler'[g] = handler[g]
      /\ \A g \in Handler : handler'[g].pc = "say" => handler'[g].arg \in Text
  BY <1>1, <1>2, <1>3, Moves
<1>5. TypeOK'
  BY <1>2, <1>4 DEF TypeOK, mutexVars, shownVars, promptVars
<1>6. MutexOwners'
  BY <1>2, <1>4 DEF MutexOwners, mutexVars
<1>7. SaysKeptApart' /\ TableIsSet'
  BY <1>2 DEF SaysKeptApart, TableIsSet, shownVars
<1>8. TextsOnTheirWay'
  <2>1. ASSUME pc = "say"
        PROVE  /\ \A i \in DOMAIN messages : messages[i] # arg
               /\ \A g \in Handler : Says(g) => handler[g].arg # arg
    BY <1>1, <2>1 DEF Range, Saying, Says
  <2>2. /\ handler'[h].pc = pc /\ handler'[h].arg = arg
        /\ messages' = messages /\ result' = result
    BY <1>2, <1>4 DEF shownVars
  <2> QED
    BY <1>1, <1>4, <2>1, <2>2 DEF TextsOnTheirWay, Says
<1> QED
  BY <1>5, <1>6, <1>7, <1>8

-----------------------------------------------------------------------------
(* The steps of a handler. *)

Moved(h, new) == /\ handler' = [handler EXCEPT ![h] = new]
                 /\ new \in [pc : HandlerPc, arg : Text \cup {Nothing}]
                 /\ new.pc # "say"

\* A handler goes on with what it has, or ends.
LEMMA GotoMoves ==
  ASSUME TypeOK, NEW h \in Handler, NEW pc \in HandlerPc, Goto(h, pc),
         pc # "say"
  PROVE  Moved(h, [pc |-> pc, arg |-> handler[h].arg])
<1>1. handler[h] \in [pc : HandlerPc, arg : Text \cup {Nothing}]
  BY DEF TypeOK
<1>2. [handler[h] EXCEPT !.pc = pc] = [pc |-> pc, arg |-> handler[h].arg]
  BY <1>1
<1> QED
  BY <1>1, <1>2 DEF Goto, Moved

LEMMA ReturnMoves ==
  ASSUME NEW h \in Handler, Return(h)
  PROVE  Moved(h, [pc |-> "idle", arg |-> Nothing])
BY DEF Return, Moved, IdleHandler, HandlerPc

\* What a move says of all handlers.
LEMMA MovedAll ==
  ASSUME TypeOK, NEW h \in Handler, NEW new, Moved(h, new)
  PROVE  /\ handler' \in [Handler -> [pc : HandlerPc, arg : Text \cup {Nothing}]]
         /\ handler'[h] = new
         /\ \A g \in Handler \ {h} : handler'[g] = handler[g]
         /\ \A g \in Handler : handler'[g].pc = "say" => handler'[g].arg \in Text
BY Moves DEF Moved

\* The signal wakes the display, which holds no mutex while it sleeps.
LEMMA SignalWakes ==
  ASSUME TypeOK, SignalDisplay \/ display' = display
  PROVE  /\ display' \in {"start", "first", "lock", "asleep", "woken", "draw", "prompt"}
         /\ display' \in {"draw", "prompt"} <=> display \in {"draw", "prompt"}
         /\ display' \in {"first", "prompt"} <=> display \in {"first", "prompt"}
BY DEF SignalDisplay, TypeOK

\* A handler that comes to no text of its own leaves the texts apart.
LEMMA TextsKept ==
  ASSUME IInv, NEW h \in Handler, NEW new, Moved(h, new), new.pc # "store",
         messages' \in {messages, <<>>}, result' \in {result, ErrorText}
  PROVE  TextsOnTheirWay' /\ SaysKeptApart'
<1>1. \A g \in Handler : Says(g)' => /\ g # h /\ handler'[g] = handler[g] /\ Says(g)
  BY MovedAll DEF IInv, Says, Moved
<1>2. \A i \in DOMAIN messages' : i \in DOMAIN messages /\ messages'[i] = messages[i]
  OBVIOUS
<1>3. TextsOnTheirWay'
  BY <1>1, <1>2 DEF IInv, TextsOnTheirWay
<1>4. SaysKeptApart'
  BY <1>2 DEF IInv, SaysKeptApart
<1> QED
  BY <1>3, <1>4

\* The sections that set things under a mutex and show them.
LEMMA QuietStep ==
  ASSUME IInv, NEW h \in Handler, NEW new, Moved(h, new), new.pc # "store",
         SignalDisplay \/ display' = display,
         UNCHANGED shownVars, connected' \in BOOLEAN, dirty' \in BOOLEAN, MutexOwners',
         connection_mutex' \in {connection_mutex, h, Free},
         messages_mutex' \in {messages_mutex, h, Free}
  PROVE  IInv'
<1>1. TypeOK'
  BY MovedAll, SignalWakes DEF IInv, TypeOK, shownVars
<1>2. TextsOnTheirWay' /\ SaysKeptApart'
  BY TextsKept DEF shownVars
<1>3. TableIsSet'
  BY DEF IInv, TableIsSet, shownVars
<1> QED
  BY <1>1, <1>2, <1>3 DEF IInv

\* execute_connect_response, rename_exec, and the sections that change no text.
LEMMA QuietSteps ==
  ASSUME IInv, NEW h \in Handler,
         \/ ConnectBegin(h) \/ ConnectEnd(h) \/ ConnectRefresh(h) \/ Disconnect(h)
         \/ ErrorPrompt(h) \/ ErrorEnd(h)
         \/ RenameBegin(h) \/ RenameEnd(h)
  PROVE  IInv'
<1> USE DEF IInv
<1> DEFINE Going(pc) == [pc |-> pc, arg |-> handler[h].arg]
           Idle == [pc |-> "idle", arg |-> Nothing]
<1>0. MutexOwners /\ Free # Display /\ \A g \in Handler : g # Free /\ g # Display
  BY ScreenAssumption DEF Free, Display
<1>1. CASE ConnectBegin(h)
  <2>1. Moved(h, Going("naming"))
    BY <1>1, GotoMoves DEF ConnectBegin, HandlerPc
  <2>2. MutexOwners'
    BY <1>0, <1>1, <2>1, MovedAll DEF ConnectBegin, MutexOwners, At
  <2> QED
    BY <1>1, <2>1, <2>2, QuietStep DEF ConnectBegin, TypeOK
<1>2. CASE ConnectEnd(h)
  <2>1. Moved(h, Going("refresh"))
    BY <1>2, GotoMoves DEF ConnectEnd, HandlerPc
  <2>2. MutexOwners'
    BY <1>0, <1>2, <2>1, MovedAll DEF ConnectEnd, MutexOwners, At
  <2> QED
    BY <1>2, <2>1, <2>2, QuietStep DEF ConnectEnd, TypeOK
<1>3. CASE ConnectRefresh(h)
  <2>1. Moved(h, Idle)
    BY <1>3, ReturnMoves DEF ConnectRefresh
  <2>2. MutexOwners'
    BY <1>0, <1>3, <2>1, MovedAll, SignalWakes DEF ConnectRefresh, MutexOwners, At, mutexVars
  <2> QED
    BY <1>3, <2>1, <2>2, QuietStep DEF ConnectRefresh, mutexVars, promptVars, TypeOK
<1>4. CASE Disconnect(h)
  <2>1. Moved(h, Going("clear"))
    BY <1>4, GotoMoves DEF Disconnect, HandlerPc
  <2>2. MutexOwners'
    BY <1>0, <1>4, <2>1, MovedAll DEF Disconnect, MutexOwners, At, mutexVars
  <2> QED
    BY <1>4, <2>1, <2>2, QuietStep DEF Disconnect, mutexVars, TypeOK
<1>5. CASE ErrorPrompt(h)
  <2>1. Moved(h, Going("prompting"))
    BY <1>5, GotoMoves DEF ErrorPrompt, HandlerPc
  <2>2. MutexOwners'
    BY <1>0, <1>5, <2>1, MovedAll DEF ErrorPrompt, MutexOwners, At
  <2> QED
    BY <1>5, <2>1, <2>2, QuietStep DEF ErrorPrompt, promptVars, TypeOK
<1>8. CASE ErrorEnd(h)
  <2>1. Moved(h, Idle)
    BY <1>8, ReturnMoves DEF ErrorEnd
  <2>2. MutexOwners'
    BY <1>0, <1>8, <2>1, MovedAll DEF ErrorEnd, MutexOwners, At
  <2> QED
    BY <1>8, <2>1, <2>2, QuietStep DEF ErrorEnd, promptVars, TypeOK
<1>6. CASE RenameBegin(h)
  <2>1. Moved(h, Going("renaming"))
    BY <1>6, GotoMoves DEF RenameBegin, HandlerPc
  <2>2. MutexOwners'
    BY <1>0, <1>6, <2>1, MovedAll DEF RenameBegin, MutexOwners, At
  <2> QED
    BY <1>6, <2>1, <2>2, QuietStep DEF RenameBegin, promptVars, TypeOK
<1>7. CASE RenameEnd(h)
  <2>1. Moved(h, Idle)
    BY <1>7, ReturnMoves DEF RenameEnd
  <2>2. MutexOwners'
    BY <1>0, <1>7, <2>1, MovedAll, SignalWakes DEF RenameEnd, MutexOwners, At
  <2> QED
    BY <1>7, <2>1, <2>2, QuietStep DEF RenameEnd, TypeOK
<1> QED
  BY <1>1, <1>2, <1>3, <1>4, <1>5, <1>6, <1>7, <1>8

\* execute_disconnect_response empties the screen, error$ takes the buffer.
LEMMA ClearAndErrorSteps ==
  ASSUME IInv, NEW h \in Handler, DisconnectClear(h) \/ ErrorJoin(h)
  PROVE  IInv'
<1> USE DEF IInv
<1>0. MutexOwners /\ Free # Display /\ \A g \in Handler : g # Free /\ g # Display
  BY ScreenAssumption DEF Free, Display
<1>1. PICK new : /\ Moved(h, new) /\ new.pc \in {"idle", "prompt"}
                 /\ messages' \in {messages, <<>>} /\ result' \in {result, ErrorText}
                 /\ UNCHANGED <<mutexVars, table, muted>>
                 /\ SignalDisplay \/ display' = display
                 /\ connected' \in BOOLEAN /\ dirty' \in BOOLEAN
                 /\ handler[h].pc \in {"clear", "error"}
  <2>1. CASE DisconnectClear(h)
    BY <2>1, ReturnMoves DEF DisconnectClear, At, TypeOK
  <2>2. CASE ErrorJoin(h)
    BY <2>2, GotoMoves DEF ErrorJoin, At, HandlerPc, promptVars, TypeOK
  <2> QED
    BY <2>1, <2>2
<1>2. messages' \in Seq(Text \cup {ErrorText})
  <2>1. <<>> \in Seq(Text \cup {ErrorText})
    OBVIOUS
  <2> QED
    BY <1>1, <2>1 DEF TypeOK
<1>3. TypeOK'
  BY <1>1, <1>2, MovedAll, SignalWakes DEF TypeOK, mutexVars
<1>4. MutexOwners'
  BY <1>0, <1>1, MovedAll, SignalWakes DEF MutexOwners, mutexVars
<1>5. TextsOnTheirWay' /\ SaysKeptApart'
  BY <1>1, TextsKept
<1>6. TableIsSet'
  BY <1>1 DEF TableIsSet
<1> QED
  BY <1>3, <1>4, <1>5, <1>6

\* say_exec joins its text into the buffer and stores it in one section.
LEMMA SaySteps ==
  ASSUME IInv, NEW h \in Handler, SayJoin(h) \/ SayStore(h)
  PROVE  IInv'
<1> USE DEF IInv
<1>0. MutexOwners /\ Free # Display /\ \A g \in Handler : g # Free /\ g # Display
  BY ScreenAssumption DEF Free, Display
<1>1. CASE SayJoin(h)
  <2> DEFINE new == [pc |-> "store", arg |-> handler[h].arg]
  <2>1. Moved(h, new)
    BY <1>1, GotoMoves DEF SayJoin, HandlerPc
  <2>2. /\ handler'[h] = new
        /\ \A g \in Handler \ {h} : handler'[g] = handler[g]
    BY <2>1, MovedAll
  <2>3. handler[h].pc = "say" /\ handler[h].arg \in Text
    BY <1>1 DEF SayJoin, At, TypeOK
  <2>4. TypeOK'
    BY <1>1, <2>1, <2>3, MovedAll DEF SayJoin, promptVars, TypeOK
  <2>5. MutexOwners'
    BY <1>0, <1>1, <2>2, <2>3 DEF SayJoin, MutexOwners
  <2>6. \A g \in Handler \ {h} : handler'[g].pc # "store"
    BY <1>0, <1>1, <2>2 DEF SayJoin, MutexOwners
  <2>7. TextsOnTheirWay'
    BY <1>1, <2>2, <2>3, <2>6 DEF SayJoin, TextsOnTheirWay, Says
  <2>8. SaysKeptApart' /\ TableIsSet'
    BY <1>1 DEF SayJoin, SaysKeptApart, TableIsSet
  <2> QED
    BY <2>4, <2>5, <2>7, <2>8
<1>2. CASE SayStore(h)
  <2> DEFINE new == [pc |-> "idle", arg |-> Nothing]
  <2>1. Moved(h, new)
    BY <1>2, ReturnMoves DEF SayStore
  <2>2. /\ handler'[h] = new
        /\ \A g \in Handler \ {h} : handler'[g] = handler[g]
    BY <2>1, MovedAll
  <2>3. /\ handler[h].pc = "store"
        /\ handler[h].arg \in Text /\ result \in {handler[h].arg, ErrorText}
        /\ messages \in Seq(Text \cup {ErrorText}) /\ messages' = Append(messages, result)
    BY <1>2 DEF SayStore, At, TextsOnTheirWay, Says, TypeOK
  <2>4. /\ Len(messages) \in Nat /\ DOMAIN messages = 1 .. Len(messages)
        /\ messages' \in Seq(Text \cup {ErrorText})
        /\ DOMAIN messages' = 1 .. Len(messages) + 1
        /\ messages'[Len(messages) + 1] = result
        /\ \A i \in DOMAIN messages : messages'[i] = messages[i]
    BY <2>3
  <2>5. TypeOK'
    BY <1>2, <2>1, <2>4, MovedAll, SignalWakes DEF SayStore, TypeOK
  <2>6. MutexOwners'
    BY <1>0, <1>2, <2>2, <2>3, SignalWakes DEF SayStore, MutexOwners
  <2>7. \A i \in DOMAIN messages' : i \in DOMAIN messages \/ messages'[i] = result
    BY <2>4
  <2>8. TextsOnTheirWay'
    <3>1. \A g \in Handler : Says(g)' => /\ g # h /\ handler'[g] = handler[g] /\ Says(g)
                                       /\ handler[g].pc # "store"
      BY <2>2, <2>3, <1>0 DEF Says, MutexOwners
    <3>2. \A g \in Handler : Says(g)' => handler'[g].arg # handler[h].arg /\ handler'[g].arg \in Text
      BY <2>3, <3>1 DEF TextsOnTheirWay, Says
    <3> SUFFICES ASSUME NEW g \in Handler, Says(g)'
                 PROVE  /\ handler'[g].arg \in Text
                        /\ \A i \in DOMAIN messages' : messages'[i] # handler'[g].arg
                        /\ \A f \in Handler : Says(f)' /\ handler'[f].arg = handler'[g].arg => f = g
                        /\ handler'[g].pc # "store"
      BY DEF TextsOnTheirWay
    <3>3. \A f \in Handler : Says(f)' /\ handler'[f].arg = handler'[g].arg => f = g
      BY <3>1 DEF TextsOnTheirWay
    <3>4. ASSUME NEW i \in DOMAIN messages' PROVE messages'[i] # handler'[g].arg
      <4>1. CASE i \in DOMAIN messages
        BY <4>1, <2>4, <3>1 DEF TextsOnTheirWay
      <4>2. CASE messages'[i] = result
        BY <4>2, <2>3, <3>2, ScreenAssumption
      <4> QED
        BY <2>7, <4>1, <4>2
    <3> QED
      BY <3>1, <3>2, <3>3, <3>4
  <2>9. SaysKeptApart' /\ TableIsSet'
    <3>1. \A i \in DOMAIN messages : messages[i] # handler[h].arg
      BY <2>3 DEF TextsOnTheirWay, Says
    <3>2. SaysKeptApart'
      <4> SUFFICES ASSUME NEW i \in DOMAIN messages', NEW j \in DOMAIN messages',
                          messages'[i] = messages'[j], messages'[i] # ErrorText
                   PROVE  i = j
        BY DEF SaysKeptApart
      <4> DEFINE old == 1 .. Len(messages)
      <4>1. i \in old \/ i = Len(messages) + 1
        BY <2>4
      <4>2. j \in old \/ j = Len(messages) + 1
        BY <2>4
      <4>3. CASE i \in old /\ j \in old
        BY <2>4, <4>3 DEF SaysKeptApart
      <4>4. CASE i \in old \/ j \in old
        BY <2>3, <2>4, <3>1, <4>1, <4>2, <4>3, <4>4
      <4> QED
        BY <4>1, <4>2, <4>4
    <3> QED
      BY <1>2, <3>2 DEF SayStore, TableIsSet
  <2> QED
    BY <2>5, <2>6, <2>8, <2>9
<1> QED
  BY <1>1, <1>2

\* mute_exec and unmute_exec keep the table the set of the users muted last.
LEMMA MuteSteps ==
  ASSUME IInv, NEW h \in Handler, NEW k \in Key, Mute(h, k) \/ Unmute(h, k)
  PROVE  IInv'
<1> USE DEF IInv
<1> DEFINE new == [pc |-> "idle", arg |-> Nothing]
<1>0. MutexOwners /\ Free # Display /\ \A g \in Handler : g # Free /\ g # Display
  BY ScreenAssumption DEF Free, Display
<1>1. /\ handler[h].pc \in {"mute", "unmute"}
      /\ UNCHANGED <<mutexVars, messages, result>>
      /\ connected' \in BOOLEAN /\ dirty' \in BOOLEAN /\ SignalDisplay
      /\ Moved(h, new)
  BY ReturnMoves DEF Mute, Unmute, SetTable, At, TypeOK
<1>2. /\ handler'[h] = new
      /\ \A g \in Handler \ {h} : handler'[g] = handler[g]
  BY <1>1, MovedAll
<1>3. table' \in Table /\ muted' \subseteq Key /\ TableIsSet'
  <2>1. table \in Table /\ WellChained(table) /\ Keys(table) = muted /\ muted \subseteq Key
    BY DEF TypeOK, TableIsSet
  <2>2. CASE Mute(h, k)
    BY <1>1, <2>1, <2>2, InsertAddsKey DEF Mute, SetTable, TableIsSet
  <2>3. CASE Unmute(h, k)
    BY <1>1, <2>1, <2>3, RemoveKeyRemoves DEF Unmute, SetTable, TableIsSet
  <2> QED
    BY <2>2, <2>3
<1>4. TypeOK'
  BY <1>1, <1>3, MovedAll, SignalWakes DEF TypeOK, mutexVars
<1>5. MutexOwners'
  BY <1>0, <1>1, <1>2, SignalWakes DEF MutexOwners, mutexVars
<1>6. TextsOnTheirWay' /\ SaysKeptApart'
  BY <1>1, TextsKept
<1> QED
  BY <1>3, <1>4, <1>5, <1>6

-----------------------------------------------------------------------------
\* The display takes the second mutex while it holds the first one.
LEMMA DisplaySteps ==
  ASSUME IInv, DisplayStep \/ SpuriousWakeup
  PROVE  IInv'
<1> USE DEF IInv
<1>0. MutexOwners /\ Free # Display /\ \A g \in Handler : g # Free /\ g # Display
  BY ScreenAssumption DEF Free, Display
<1>1. UNCHANGED <<shownVars, handler>>
  BY DEF DisplayStep, SpuriousWakeup, BeginFirstPrompt, EndFirstPrompt, DisplayWait,
         DrawMessages, BeginPrompt, EndPrompt
<1>2. TypeOK'
  BY <1>1 DEF TypeOK, shownVars, mutexVars, promptVars, DisplayStep, SpuriousWakeup,
              BeginFirstPrompt, EndFirstPrompt, DisplayWait, DrawMessages, BeginPrompt,
              EndPrompt
<1>3. MutexOwners'
  BY <1>0, <1>1 DEF MutexOwners, mutexVars, DisplayStep, SpuriousWakeup, BeginFirstPrompt,
                    EndFirstPrompt, DisplayWait, DrawMessages, BeginPrompt, EndPrompt
<1>4. TextsOnTheirWay' /\ SaysKeptApart' /\ TableIsSet'
  BY <1>1 DEF TextsOnTheirWay, Says, SaysKeptApart, TableIsSet, shownVars
<1> QED
  BY <1>2, <1>3, <1>4

LEMMA InvariantStep == IInv /\ [Next]_vars => IInv'
<1> SUFFICES ASSUME IInv, [Next]_vars PROVE IInv'
  OBVIOUS
<1>1. CASE UNCHANGED vars
  BY <1>1 DEF vars, mutexVars, shownVars, promptVars, IInv, TypeOK, MutexOwners, TextsOnTheirWay, Says,
              SaysKeptApart, TableIsSet
<1>2. CASE Next
  BY <1>2, ArrivalStep, QuietSteps, ClearAndErrorSteps, SaySteps, MuteSteps, DisplaySteps
     DEF Next, HandlerStep
<1> QED
  BY <1>1, <1>2

\* Through every lock, unlock and write of the client's handlers and of the display,
\* each thread holds exactly the mutexes its step calls for, no text is stored by two
\* handlers, and the mute table is the set of those muted.
THEOREM InductiveInvariant == Spec => []IInv
BY InvariantInit, InvariantStep, PTL DEF Spec

-----------------------------------------------------------------------------
\* Types of the screen's data (client_types.h 125-251).
THEOREM TypeCorrect == Spec => []TypeOK
BY InductiveInvariant, PTL DEF IInv

\* The two mutexes that guard the name together keep the display's loop off it while
\* it is written (client_types.h 173-176 and 187-190, client_interface.c 144-150); its
\* first prompt and that of error$ are kept apart from execute_connect_response.
THEOREM PromptsAreWhole == Spec => []PromptsReadWholeName
<1>1. IInv => PromptsReadWholeName
  BY ScreenAssumption DEF IInv, MutexOwners, PromptsReadWholeName, At, Free, Display
<1> QED
  BY <1>1, InductiveInvariant, PTL

\* Texts of say$ never meet in the static buffer (client_types.h 125-149).
THEOREM SaysAreKeptApart == Spec => []SaysKeptApart
BY InductiveInvariant, PTL DEF IInv

\* mute$ and unmute$ leave the chained table equal to the set of muted users, for
\* every hash function (custom_hash_table.h 16-78).
THEOREM TableStaysSet == Spec => []TableIsSet
BY InductiveInvariant, PTL DEF IInv
=============================================================================
