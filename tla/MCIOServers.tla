------------------------------ MODULE MCIOServers ------------------------------
EXTENDS IOServers, TLC

CONSTANTS a, b, c, d, e

MCMsgs == (a :> 2) @@ (b :> 1) @@ (c :> 0) @@ (d :> 1) @@ (e :> 0)

\* Three peers where descriptors of one number must be reused beside others, and
\* four where the number of an event must come up to that of Sock.
MCClients ==
  [k \in {"select", "poll"} |-> {b, c, d}] @@ ("epoll" :> {b, c, d, e})
    @@ [k \in {"http", "ntyco"} |-> {a, e}] @@ [k \in {"threads", "reactor", "httpd"} |-> {a, b}]

MCRequests == (a :> {"missing", "file"}) @@ (b :> {"file", "directory", "other method"}) @@ (c :> {}) @@ (d :> {}) @@ (e :> {})
\* Of 32 processors: two processes in one word of totalfds; one in the lock and one
\* in the word after it.
MCSelfIds == {<<5, 37>>, <<20, 53>>}

MCBlank == (a :> {2}) @@ (b :> {}) @@ (c :> {}) @@ (d :> {}) @@ (e :> {})
=============================================================================
