------------------------------ MODULE MessagePath ------------------------------
(****************************************************************************)
(* The way of a message from the line that a user types to the line that    *)
(* another client shows: through the ring of the server, cut up, made a     *)
(* command, joined and formatted by the handler, through the ring of the    *)
(* client, cut up and made a command again, joined again.  Each of these    *)
(* passes has limits of its own, on the number of words, on the length of a *)
(* word and on the length of a text.  The user is on the server's list: say *)
(* and sayto read the name of a sender without asking whether there is one. *)
(*                                                                          *)
(* A text is the sequence of its words, one space apart.  A word is known   *)
(* by what it stands for, by its length, by where it has a colon and by     *)
(* whether it ends in a dollar sign.                                        *)
(****************************************************************************)
EXTENDS Integers, Sequences, SequencesExt

CONSTANTS QUEUE_MSG_SIZE,        \* 512
          MAX_COMMAND_LEN,       \* 50: tokens of a message and the NULL after them
          MAX_CMD_SIZE,          \* 50: args of a command_t
          NAME_SIZE,             \* 20: characters of an arg with the NUL
          MAX_MESSAGE,           \* 256
          MAX_NAME_LEN,          \* 30
          RESPONSE_BUFFER_SIZE,  \* 512
          JOIN_SIZE,             \* 300: the static buffer of the client's join
          Line,                  \* the lines typed in this instance
          SenderName             \* the names of the clients that type them

VARIABLES stage,    \* who has the message
          line,     \* what was typed
          from,     \* the name of the sender
          packet,   \* the text in the ring of the server or of the client
          command,  \* the command_t made of it
          shown     \* the line on the screen of the client that gets it

vars == <<stage, line, from, packet, command, shown>>

Kinds == {"conn", "connsuccess", "connfailed", "say", "sayto", "mute", "unmute", "rename",
          "disconn", "disconnresponse", "kick", "ping", "retping", "error"}
Empty == [stem |-> "none", nth |-> 0, len |-> 0, colon |-> 0, dollar |-> FALSE]
Plain(stem, len) == [Empty EXCEPT !.stem = stem, !.len = len]
Dollar(kind, len) == [Plain(kind, len + 1) EXCEPT !.dollar = TRUE]
Typed(i, len) == [Plain("word", len) EXCEPT !.nth = i]

\* The words that the server puts in.
Formats == {"SERVER", "has", "been", "kicked", "message)", "you", "to", "text"}
Stem == Kinds \cup Formats \cup {"none", "word", "name"}
Word == [stem : Stem, nth : Nat, len : Nat, colon : Nat, dollar : BOOLEAN]
Args == [1 .. MAX_CMD_SIZE -> Word]
Command == [kind : Kinds \cup {"unknown"}, args : Args]
NoCommand == [kind |-> "unknown", args |-> [i \in 1 .. MAX_CMD_SIZE |-> Empty]]

ASSUME TextAssumption ==
  /\ Line \subseteq Seq(Word)
  /\ SenderName \subseteq {w \in Word : w.len < NAME_SIZE}

\* What the sizes that the source defines have to do with each other, in queue.h,
\* cmd.h, server_types.h and client_types.h.
ASSUME LimitsAssumption ==
  /\ {QUEUE_MSG_SIZE, MAX_COMMAND_LEN, MAX_CMD_SIZE, NAME_SIZE, MAX_MESSAGE, MAX_NAME_LEN,
      RESPONSE_BUFFER_SIZE, JOIN_SIZE} \subseteq Nat
  /\ 3 < MAX_COMMAND_LEN /\ MAX_COMMAND_LEN <= MAX_CMD_SIZE + 1
  /\ 7 < NAME_SIZE /\ NAME_SIZE <= MAX_NAME_LEN
  /\ NAME_SIZE + 60 < MAX_MESSAGE
  /\ MAX_MESSAGE + MAX_NAME_LEN + 2 <= JOIN_SIZE
  /\ MAX_MESSAGE + NAME_SIZE + 15 <= JOIN_SIZE
  /\ JOIN_SIZE + 16 <= RESPONSE_BUFFER_SIZE /\ RESPONSE_BUFFER_SIZE <= QUEUE_MSG_SIZE

-----------------------------------------------------------------------------
\* The first n characters of a word.
Cut(w, n) ==
  IF w.len <= n THEN w
  ELSE [w EXCEPT !.len = n, !.colon = IF w.colon > n THEN 0 ELSE w.colon, !.dollar = FALSE]

\* The characters before the i-th word of a text, spaces included.
Before(text, i) ==
  LET upTo[k \in 0 .. Len(text)] == IF k = 0 THEN 0 ELSE upTo[k - 1] + text[k].len + 1
  IN  upTo[i - 1]

Length(text) == IF text = <<>> THEN 0 ELSE Before(text, Len(text)) + text[Len(text)].len

\* What strncpy and snprintf keep of a text in a buffer of n characters.
Fit(text, n) ==
  LET begun == {i \in DOMAIN text : Before(text, i) < n - 1}
  IN  [i \in begun |-> Cut(text[i], n - 1 - Before(text, i))]

RemoveDollarSign(text) ==
  LET i == SelectInSeq(text, LAMBDA w : w.dollar)
  IN  IF i = 0 THEN text ELSE [text EXCEPT ![i].dollar = FALSE, ![i].len = @ - 1]

\* strtok: the words that are not empty.
Kept(text) ==
  LET upTo[k \in 0 .. Len(text)] ==
        IF k = 0 THEN <<>>
        ELSE IF text[k].len > 0 THEN Append(upTo[k - 1], text[k]) ELSE upTo[k - 1]
  IN  upTo[Len(text)]

\* get_and_tokenise.
Tokens_NoLimit(text) == Kept(RemoveDollarSign(text))
Tokens_OneLess(text) ==
  LET words == Kept(RemoveDollarSign(text))
  IN  IF Len(words) < MAX_COMMAND_LEN - 1 THEN words ELSE SubSeq(words, 1, MAX_COMMAND_LEN - 2)
Tokens(text) ==
  LET words == Kept(RemoveDollarSign(text))
  IN  IF Len(words) < MAX_COMMAND_LEN THEN words ELSE SubSeq(words, 1, MAX_COMMAND_LEN - 1)

\* command_handler, of at least one token.
KindOf(w) == IF w.stem \in Kinds /\ w.colon = 0 /\ ~w.dollar THEN w.stem ELSE "unknown"
CommandOf_NotCleared(tokens) ==
  [kind |-> KindOf(tokens[1]),
   args |-> [i \in 1 .. Len(tokens) - 1 |-> Cut(tokens[i + 1], NAME_SIZE - 1)]]
CommandOf(tokens) ==
  [kind |-> KindOf(tokens[1]),
   args |-> [i \in 1 .. MAX_CMD_SIZE |->
               IF i < Len(tokens) THEN Cut(tokens[i + 1], NAME_SIZE - 1) ELSE Empty]]

\* The args from a given one up to the first that is empty.
Filled(args, start) ==
  LET end == SelectInSeq(SubSeq(args, start, MAX_CMD_SIZE), LAMBDA w : w.len = 0)
  IN  IF end = 0 THEN SubSeq(args, start, MAX_CMD_SIZE)
      ELSE SubSeq(args, start, start + end - 2)

\* join_args: as many of them as leave room in the result.
JoinArgs_NoLimit(args, start) == Filled(args, start)
JoinArgs(args, start) ==
  LET words == Filled(args, start)
      fits == {i \in DOMAIN words : Before(words, i) + words[i].len < MAX_MESSAGE - 1}
  IN  [i \in fits |-> words[i]]

\* extract_username: what stands before the first colon, if that is one word.
Username_WithColon(text) ==
  IF text # <<>> /\ text[1].colon - 1 \in 1 .. NAME_SIZE - 1
  THEN [text[1] EXCEPT !.colon = 0] ELSE Empty
Username(text) ==
  IF text # <<>> /\ text[1].colon - 1 \in 1 .. NAME_SIZE - 1
  THEN [text[1] EXCEPT !.len = text[1].colon - 1, !.colon = 0] ELSE Empty

-----------------------------------------------------------------------------
TypeOK ==
  /\ stage \in {"typed", "queued", "at_server", "unset_at_server", "answered", "at_client",
                "unset_at_client", "done"}
  /\ line \in Line /\ from \in SenderName
  /\ packet \in Seq(Word)
  /\ command \in Command
  /\ shown \in Seq(Word)

Init ==
  /\ stage = "typed"
  /\ line \in Line /\ from \in SenderName
  /\ packet = <<>> /\ command = NoCommand /\ shown = <<>>

\* The listener's q_append.
ServerQueues ==
  /\ stage = "typed"
  /\ packet' = Fit(line, QUEUE_MSG_SIZE)
  /\ stage' = "queued"
  /\ UNCHANGED <<line, from, command, shown>>

\* q_pop and command_handler, on either side.  Without a token the command is
\* left as malloc or the stack had it; what is done with it is not followed.
Parse(next, unset) ==
  /\ command' = IF Tokens(packet) = <<>> THEN command ELSE CommandOf(Tokens(packet))
  /\ stage' = IF Tokens(packet) = <<>> THEN unset ELSE next
  /\ UNCHANGED <<line, from, packet, shown>>

ServerParses ==
  /\ stage = "queued"
  /\ Parse("at_server", "unset_at_server")

\* A handler formats its response into a buffer and sends it, and the client's
\* listener appends it to the client's ring; or it sends nothing.
Answer(text, size) ==
  /\ packet' = Fit(Fit(text, size), QUEUE_MSG_SIZE)
  /\ stage' = "answered"
  /\ UNCHANGED <<line, from, command, shown>>

Silence ==
  /\ stage' = "done"
  /\ UNCHANGED <<line, from, packet, command, shown>>

\* name: and name:(private and (name)
Colon(name) == IF name.colon = 0 THEN name.len + 1 ELSE name.colon
Named(name) == [name EXCEPT !.len = @ + 1, !.colon = Colon(name), !.dollar = FALSE]
NamedPrivate(name) == [name EXCEPT !.len = @ + 9, !.colon = Colon(name), !.dollar = FALSE]
Bracketed(name) ==
  [name EXCEPT !.len = @ + 2, !.colon = IF @ = 0 THEN 0 ELSE @ + 1, !.dollar = FALSE]

\* A name between spaces: if it is empty the two spaces are one to strtok.
Spaced(name) == IF name.len = 0 THEN <<>> ELSE <<name>>

\* A word of an error, of which only the length matters.
Text(len) == Plain("text", len)

\* To every client; conn$ sends the same texts again from the history.
ServerSay ==
  /\ stage = "at_server" /\ command.kind = "say"
  /\ LET full == Fit(<<Named(from)>> \o JoinArgs(command.args, 1),
                     MAX_MESSAGE + MAX_NAME_LEN + 2)
     IN  Answer(<<Dollar("say", 3)>> \o full, RESPONSE_BUFFER_SIZE)

\* To the receiver, to the sender, or to the sender of a receiver that is unknown:
\* User not found. and the name.
ServerSayto ==
  /\ stage = "at_server" /\ command.kind = "sayto"
  /\ LET whom == command.args[1]
         message == <<Plain("message)", 8)>> \o JoinArgs(command.args, 2)
     IN  \/ Answer(<<Dollar("say", 3), NamedPrivate(from)>> \o message, RESPONSE_BUFFER_SIZE)
         \/ Answer(<<Dollar("say", 3), Plain("you", 3), Plain("to", 2), NamedPrivate(whom)>>
                     \o message, RESPONSE_BUFFER_SIZE)
         \/ Answer(<<Dollar("error", 5), Text(4), Text(3), Text(6), Bracketed(whom)>>,
                   RESPONSE_BUFFER_SIZE)

\* To every client, to the one that is kicked, or to a sender that is not the
\* admin: Permission denied. Only admin can kick users.  Nothing if there is no
\* client of that name.
Server == Plain("SERVER", 6)
Kicked(name) ==
  <<Named(Server)>> \o Spaced(name) \o <<Plain("has", 3), Plain("been", 4), Plain("kicked", 6)>>

ServerKick ==
  /\ stage = "at_server" /\ command.kind = "kick"
  /\ \/ Answer(<<Dollar("say", 3)>> \o Kicked(command.args[1]), RESPONSE_BUFFER_SIZE)
     \/ Answer(<<Dollar("disconnresponse", 15)>>, MAX_MESSAGE)
     \/ Answer(<<Dollar("error", 5), Text(10), Text(7), Text(4), Text(5), Text(3), Text(4),
                 Text(6)>>, MAX_MESSAGE)
     \/ Silence

\* conn, mute, unmute and rename answer with the name they were given.
Echo == [conn |-> Dollar("connsuccess", 11), mute |-> Dollar("mute", 4),
         unmute |-> Dollar("unmute", 6), rename |-> Dollar("rename", 6)]
ServerEchoes ==
  /\ stage = "at_server" /\ command.kind \in DOMAIN Echo
  /\ Answer(<<Echo[command.kind]>> \o Spaced(command.args[1]), MAX_MESSAGE)

ServerDisconnect ==
  /\ stage = "at_server" /\ command.kind = "disconn"
  /\ Answer(<<Dollar("disconnresponse", 15)>>, MAX_MESSAGE) \/ Silence

\* Unknown command.
ServerUnknown ==
  /\ stage = "at_server" /\ command.kind = "unknown"
  /\ Answer(<<Dollar("error", 5), Text(7), Text(7)>>, MAX_MESSAGE)

\* retping$ and what only the server should send.
ServerIgnores ==
  /\ stage = "at_server"
  /\ command.kind \in {"retping", "connsuccess", "connfailed", "disconnresponse", "ping", "error"}
  /\ Silence

ClientParses ==
  /\ stage = "answered"
  /\ Parse("at_client", "unset_at_client")

\* say_exec; join runs to the first empty arg.  An error is printed, not kept.
ClientShows ==
  /\ stage = "at_client"
  /\ shown' = IF command.kind = "say" THEN Filled(command.args, 1) ELSE <<>>
  /\ stage' = "done"
  /\ UNCHANGED <<line, from, packet, command>>

Next == \/ ServerQueues \/ ServerParses
        \/ ServerSay \/ ServerSayto \/ ServerKick \/ ServerEchoes \/ ServerDisconnect
        \/ ServerUnknown \/ ServerIgnores
        \/ ClientParses \/ ClientShows

Spec == Init /\ [][Next]_vars

-----------------------------------------------------------------------------
(****************************************************************************)
(* Properties.                                                              *)
(****************************************************************************)

\* What the client handles is a command that command_handler has set, whatever
\* users type: an answer of the server always has a first word, so the early
\* return of cmd.h 32 never leaves the client with a command_t off the stack
\* (client_interface.c 345).  And its last arg is empty: join has no other end
\* (client_types.h 130), and MAX_CMD_SIZE is no limit of get_and_tokenise
\* (queue.h 47).
ClientCommandSet ==
  /\ stage # "unset_at_client"
  /\ stage = "at_client" => command.args[MAX_CMD_SIZE].len = 0

\* Whatever users type, the args of a response fit the client's static buffer
\* of 300 characters, which join does not check: the limits of join_args and
\* of the name at the server are what keeps it (client_types.h 126-135).
JoinFits == stage = "at_client" => Length(Filled(command.args, 1)) < JOIN_SIZE

\* A say$ that keeps to the limits is shown as it was typed, behind its sender's
\* name.  The limit is three below MAX_COMMAND_LEN and not two: on its way back
\* the message has one word more (server_interface.c 179, queue.h 47).
Plainly(w) == w.len \in 1 .. NAME_SIZE - 1 /\ w.colon = 0 /\ ~w.dollar
Says(text) == text # <<>> /\ text[1] \in {Dollar("say", 3), Plain("say", 3)}
InLimits(words) == /\ Len(words) <= MAX_COMMAND_LEN - 3
                   /\ Length(words) < MAX_MESSAGE - 1
                   /\ \A i \in DOMAIN words : Plainly(words[i])

SaysArriveWhole ==
  stage = "done" /\ Says(line) /\ InLimits(Tail(line)) /\ from.len < NAME_SIZE - 1
    => shown = <<Named(from)>> \o Tail(line)

\* A client that muted the sender recognises what it says, in public or to the
\* client alone, and nothing else is taken for a message of a muted client
\* (custom_hash_table.h 80, server_interface.c 133, 138 and 179); a name of
\* NAME_SIZE - 1 letters loses its colon to the limit of an arg and is not found.
\* So is a name that is empty or holds a colon, which conn$ and rename$ allow.
\* A dollar sign is only followed at the end of a word, so not in front of the
\* colon of a name.  The line of a kick$ is taken for one of a user SERVER, which
\* is a name that a client may have (server_interface.c 355).
Asked ==
  LET tokens == Tokens(Fit(line, QUEUE_MSG_SIZE))
  IN  IF tokens = <<>> THEN "unset" ELSE KindOf(tokens[1])
Regular(name) == name.len > 0 /\ name.colon = 0 /\ ~name.dollar

SenderRecognised ==
  stage = "done" /\ shown # <<>> =>
    IF Asked = "kick" THEN Username(shown) = Server
    ELSE Regular(from) =>
           \/ Username(shown) = from
           \/ Username(shown) = Empty /\ (shown[1] = Plain("you", 3) \/ from.len = NAME_SIZE - 1)
=============================================================================
