------------------------------- MODULE Calls -------------------------------
(***************************************************************************)
(* The vocabulary in which the functions that talk to PostgreSQL, to the   *)
(* node and to an HTTP client are written down.  A function is a sequence  *)
(* of statements, in the order of its own, and only what touches the       *)
(* connection pool, a mutex, the node or the client is one: the SQL text,  *)
(* the columns scanned and the values built are left out, every early      *)
(* return, deferred close, rollback and ignored error is kept.             *)
(*                                                                         *)
(* Steps(p) is what runs: the steps of p one after the other, with         *)
(*   op      what it does (see Takes, Keeps, Gives)                        *)
(*   lock    the mutex a lock, rlock, unlock or peek step is about         *)
(*   undo    how many connections the path taken when it fails gives back: *)
(*           the deferred rows.Close and the Rollback calls on that path   *)
(*   unlocks the mutexes that path unlocks                                 *)
(*   skip    where a failure leads: 0 returns from the whole call, n > 0   *)
(*           goes on n steps further                                       *)
(*   panics  the failure path dereferences the nil it was given            *)
(*   answers how many responses the failure path writes to the client      *)
(*   jump    how many steps a jump leaves out, and a branch may leave out  *)
(*   seen    whether another process can notice it (CallPool)              *)
(***************************************************************************)
EXTENDS Naturals, Sequences, TLC

\* Steps that need a free connection of the pool, and of those the ones that keep it.
Takes == {"row", "exec", "query", "begin", "query_noctx", "begin_noctx"}
Keeps == {"query", "begin", "query_noctx", "begin_noctx"}
\* Steps that give back the connection opened last.
Gives == {"close", "commit"}
\* Steps that can fail.  A rows.Close that fails is logged and has given the
\* connection back; a Commit that fails has ended the transaction all the same.
MayFail == Takes \cup {"stmt", "scan", "commit", "rpc", "check", "fail"}
\* Steps whose wait for a connection ends when the context of the call does.
Timed == {"row", "query", "begin"}

Do(op) == <<[is |-> op]>>
With(kind, p) == <<[is |-> kind, p |-> p]>>
WithBoth(kind, p, q) == <<[is |-> kind, p |-> p, q |-> q]>>
OnLock(kind, m, p) == <<[is |-> kind, lock |-> m, p |-> p]>>

\* QueryRowContext(...).Scan and ExecContext on the pool.
Row == Do("row")
\* The same without a context: Exec, QueryRow, Prepare.
Exec == Do("exec")
\* A statement inside the transaction that is open.
Stmt == Do("stmt")
\* A request to the node.
Rpc == Do("rpc")
\* A test of arguments or results that returns an error.
Check == Do("check")

\* A failure inside p runs one more deferred close or rollback.
Keep(p) == With("keep", p)
\* The error of p is logged and the function goes on after it.
Try(p) == With("try", p)
\* The error of p is dropped: the function returns nil.
Drop(p) == With("try", p)
\* The error of p is logged and leaves out q as well.
Then(p, q) == WithBoth("then", p, q)
\* The error of p leads to q, which is left out otherwise, and with OrMaybe may be run.
OrElse(p, q) == WithBoth("orElse", p, q)
OrMaybe(p, q) == WithBoth("orMaybe", p, q)
\* The nil that p returns on a failure is used without a test.
Deref(p) == With("deref", p)

\* mtx.Lock(); p; mtx.Unlock(), the unlock deferred; the same with RLock; and around one read.
Locked(m, p) == OnLock("lock", m, p)
Shared(m, p) == OnLock("rlock", m, p)
Peek(m) == OnLock("peek", m, <<>>)

\* if c { p };  if c { p } else { q };  a loop, here of at most two turns.
Opt(p) == With("opt", p)
Either(p, q) == WithBoth("either", p, q)
Each(p) == Opt(p \o Opt(p))

\* rows, err := QueryContext(...); defer closeRows(rows); for rows.Next() { p }
Rows(p) == Do("query") \o Keep(Do("scan") \o p) \o Do("close")
RowsNoCtx(p) == Do("query_noctx") \o Keep(Do("scan") \o p) \o Do("close")
Scan == <<>>

\* dbtx, err := db.Begin(); p, with a rollback on every failure; dbtx.Commit()
Tx(p) == Do("begin_noctx") \o Keep(p) \o Do("commit")
TxCtx(p) == Do("begin") \o Keep(p) \o Do("commit")

\* The failures of p make the handler write an error response and return.
OrError(p) == With("orError", p)
\* An error response without the return that should follow it.
ErrorAndGoOn(p) == Try(OrError(p))
\* The handler writes its response, and with Answer returns.
Write == Do("write")
Answer == Write \o Do("return")
\* The error path itself: an unconditional failure.
Fail == Do("fail")
\* A handler that answers when p works and goes on looking when it fails.
Found(p) == Then(p, Answer)
\* A time-out makes the handler give up, any other error of p is logged.
Maybe(p) == Either(p, Try(p))
\* The failures of a handler that did not answer already lead to one page at its end.
Otherwise(p, page) == WithBoth("otherwise", p, page)
\* The calls of p made with a context that has no deadline.
NoDeadline(p) == With("noDeadline", p)

\* The handlers of a router under a path, each after the router's middlewares.
Under(path, middlewares, routes) ==
  [r \in {path \o n : n \in DOMAIN routes} |-> middlewares \o routes[CHOOSE n \in DOMAIN routes : path \o n = r]]

Step(op, lock, jump) ==
  [op |-> op, lock |-> lock, undo |-> 0, unlocks |-> {}, skip |-> 0,
   panics |-> FALSE, answers |-> 0, jump |-> jump, seen |-> TRUE]

\* The steps p whose failure leaves them, changed; left is the number of steps after each.
OnError(p, Changed(_, _)) ==
  <<>> \o [i \in 1..Len(p) |-> IF p[i].skip = 0 THEN Changed(p[i], Len(p) - i) ELSE p[i]]
\* Their failure goes on n steps behind the last of them.
GoOn(p, n) == OnError(p, LAMBDA s, left : [s EXCEPT !.skip = left + 1 + n])

WithoutDeadline(s) ==
  [s EXCEPT !.op = CASE s.op = "row" -> "exec" [] s.op = "query" -> "query_noctx"
                     [] s.op = "begin" -> "begin_noctx" [] OTHER -> s.op]

\* The steps of one statement, from those of its parts.
StepsOf(s, p, q) ==
  CASE s.is = "keep" -> OnError(p, LAMBDA x, left : [x EXCEPT !.undo = @ + 1])
    [] s.is = "try" -> GoOn(p, 0)
    [] s.is = "then" -> GoOn(p, Len(q)) \o q
    [] s.is = "orElse" -> GoOn(p, 1) \o <<Step("jump", "", Len(q))>> \o q
    [] s.is = "orMaybe" -> GoOn(p, 1) \o <<Step("branch", "", Len(q))>> \o q
    [] s.is = "deref" -> OnError(p, LAMBDA x, left : [x EXCEPT !.panics = TRUE])
    [] s.is \in {"lock", "rlock"} ->
         <<Step(s.is, s.lock, 0)>> \o OnError(p, LAMBDA x, left : [x EXCEPT !.unlocks = @ \cup {s.lock}])
           \o <<Step("unlock", s.lock, 0)>>
    [] s.is = "peek" -> <<Step("peek", s.lock, 0)>>
    [] s.is = "opt" -> <<Step("branch", "", Len(p))>> \o p
    [] s.is = "either" -> <<Step("branch", "", Len(p) + 1)>> \o p \o <<Step("jump", "", Len(q))>> \o q
    [] s.is = "orError" -> OnError(p, LAMBDA x, left : [x EXCEPT !.answers = @ + 1])
    [] s.is = "otherwise" ->
         OnError(p, LAMBDA x, left : IF x.answers = 0 THEN [x EXCEPT !.skip = left + 2] ELSE x)
           \o <<Step("return", "", 0)>> \o q
    [] s.is = "noDeadline" -> [i \in 1..Len(p) |-> WithoutDeadline(p[i])]
    [] OTHER -> <<Step(s.is, "", 0)>>

RECURSIVE Steps(_)
Steps(prog) ==
  LET s == Head(prog)
      part(name) == IF name \in DOMAIN s THEN Steps(s[name]) ELSE <<>>
  IN  IF prog = <<>> THEN <<>> ELSE StepsOf(s, part("p"), part("q")) \o Steps(Tail(prog))
=============================================================================
