----------------------------- MODULE KVProtocol -----------------------------
(***************************************************************************)
(* The text protocol of kvstore.c: a request buffer is cut into words in   *)
(* place, the first word selects one of fifteen commands, and the command  *)
(* is a call of one of the three engines followed by a reply.  An engine   *)
(* is what KVMap promises, a function from the keys present to their       *)
(* values, with what it does when it finds no memory.  A call has a set of *)
(* outcomes, the engine's map and the reply; one without an outcome ends   *)
(* the process.                                                            *)
(*                                                                         *)
(* A buffer is a sequence of characters.  Only the length of a word and    *)
(* its identity matter, so Spelling gives each command a short word.       *)
(***************************************************************************)
EXTENDS Integers, Sequences, FiniteSets, TLC

CONSTANTS
  SP, NUL,          \* the space and the terminating zero
  Spelling,         \* the word of each command
  BUFFER_LENGTH,
  KVS_ARRAY_SIZE,
  MemoryFails,      \* malloc may return NULL
  Lost              \* what a key has whose value the tree found no memory for

Engines == {"array", "rbtree", "hash"}
commands == Engines \X {"SET", "GET", "DEL", "COUNT", "EXIST"}

ASSUME ProtocolAssumption ==
  /\ SP # NUL
  /\ DOMAIN Spelling = commands
  /\ \A c, d \in commands : Spelling[c] = Spelling[d] => c = d
  /\ BUFFER_LENGTH \in Nat \ {0}
  /\ KVS_ARRAY_SIZE \in Nat \ {0}
  /\ MemoryFails \in BOOLEAN

Blank == [i \in 1..BUFFER_LENGTH |-> NUL]

\* A C string runs from its pointer to the first zero.
End(buf, from) ==
  CHOOSE i \in from..BUFFER_LENGTH : buf[i] = NUL /\ \A j \in from..i - 1 : buf[j] # NUL
CString(buf, from) == SubSeq(buf, from, End(buf, from) - 1)

-----------------------------------------------------------------------------
\* recv writes over the front of the buffer, and leaves the rest as it was.
Received(buf, bytes) == bytes \o SubSeq(buf, Len(bytes) + 1, BUFFER_LENGTH)

\* Where the words of the string in buf begin.
WordStarts(buf) ==
  {i \in 1..End(buf, 1) - 1 : buf[i] # SP /\ (i > 1 => buf[i - 1] = SP)}

\* What strtok returns: its n-th call, the word that is the n-th in the string.
kvstore_split_token(buf) ==
  LET starts == WordStarts(buf) IN
  [n \in 1..Cardinality(starts) |->
     CHOOSE i \in starts : Cardinality({j \in starts : j <= i}) = n]

\* strtok ends each word by writing a zero over the space behind it.
Separated(buf) ==
  LET end == End(buf, 1) IN
  [i \in 1..BUFFER_LENGTH |->
     IF i \in 2..end - 1 /\ buf[i] = SP /\ buf[i - 1] # SP THEN NUL ELSE buf[i]]

\* The number of words a command reads; kvstore_parser_protocol does not
\* compare it with the number of words there are.
WordsRead(cmd) == CASE cmd[2] = "SET" -> 3 [] cmd[2] = "COUNT" -> 1 [] OTHER -> 2

-----------------------------------------------------------------------------
Done(map, reply) == [map |-> map, reply |-> reply]
Put(map, key, val) == [k \in DOMAIN map \cup {key} |-> IF k = key THEN val ELSE map[k]]

\* What a set does that finds no memory.  A new key is refused; the array keeps
\* the old value of a present one and says SUCCESS, the tree has lost it.  The
\* hash table follows a null pointer, or asserts that there is memory.
SetNoMemory(engine, map, key) ==
  IF ~MemoryFails \/ engine = "hash" THEN {}
  ELSE IF key \notin DOMAIN map THEN {Done(map, <<"ERROR">>)}
  ELSE IF engine = "array" THEN {Done(map, <<"SUCCESS">>)}
  ELSE {Done(Put(map, key, Lost), <<"ERROR">>)}

Dies(cmd) == MemoryFails /\ cmd = <<"hash", "SET">>

\* One case of the switch: the outcomes of a command.  The array refuses every
\* set when it is full.
Dispatch(engine, map, op, key, val) ==
  LET present == key \in DOMAIN map
      full == engine = "array" /\ Cardinality(DOMAIN map) = KVS_ARRAY_SIZE
  IN CASE op = "SET" /\ full -> {Done(map, <<"ERROR">>)}
       [] op = "SET" /\ ~full ->
            {Done(Put(map, key, val), <<"SUCCESS">>)} \cup SetNoMemory(engine, map, key)
       [] op = "COUNT" -> {Done(map, <<"count", Cardinality(DOMAIN map)>>)}
       [] op \in {"GET", "DEL", "EXIST"} /\ ~present -> {Done(map, <<"NO EXIST">>)}
       [] op = "GET" /\ present ->
            {Done(map, IF map[key] = Lost THEN <<"ERROR">> ELSE <<"value", map[key]>>)}
       [] op = "DEL" /\ present ->
            {Done([k \in DOMAIN map \ {key} |-> map[k]], <<"SUCCESS">>)}
       [] op = "EXIST" /\ present -> {Done(map, <<"EXISTED">>)}

Execute(stores, cmd, key, val) == Dispatch(cmd[1], stores[cmd[1]], cmd[2], key, val)

\* The command is called with a null pointer for a word: it is looked at before
\* it is followed, or there is no key to compare it with.
NullArgument(stores, cmd) ==
  LET map == stores[cmd[1]] IN
  CASE cmd[2] = "SET" -> IF cmd[1] = "rbtree" THEN {} ELSE {Done(map, <<"ERROR">>)}
    [] cmd[2] \in {"GET", "DEL", "EXIST"} ->
         IF cmd[1] = "hash" \/ DOMAIN map = {} THEN {Done(map, <<"NO EXIST">>)} ELSE {}

\* The outcomes of a request r that arrives whole in a zeroed buffer, with as many
\* words as its command reads: the stores afterwards, and the reply.
Handle(stores, r) ==
  LET Arg(i) == IF i <= Len(r.args) THEN r.args[i] ELSE <<>> IN
  IF r.cmd \in commands
  THEN {[stores |-> [stores EXCEPT ![r.cmd[1]] = done.map], reply |-> done.reply] :
          done \in Execute(stores, r.cmd, Arg(1), Arg(2))}
  ELSE {[stores |-> stores, reply |-> <<"NO MATCH">>]}
=============================================================================
