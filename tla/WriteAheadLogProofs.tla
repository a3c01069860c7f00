------------------------- MODULE WriteAheadLogProofs -------------------------
(***************************************************************************)
(* Proofs about WriteAheadLog.  Whatever fails: nothing is published over  *)
(* a log that cannot be read.  As long as no write fails: the ref stands   *)
(* on stored commits, however many sessions there are and whichever die.   *)
(* For a session alone: what stopped between the ref and the branch index  *)
(* is in the log.                                                          *)
(***************************************************************************)
EXTENDS WriteAheadLog, WellFoundedInduction, TLAPS

Scripts == {Script, RejectedScript}

(* What a session may be: one that writes has the lock, and is at a step   *)
(* of one of the two scripts.                                              *)
SessionOK(s) ==
  /\ session[s] = [open |-> session[s].open, head |-> session[s].head,
                   commit |-> session[s].commit, script |-> session[s].script,
                   step |-> session[s].step]
  /\ session[s].step \in Nat
  /\ Writing(s) =>
       /\ lock = s /\ session[s].open
       /\ session[s].script \in Scripts
       /\ session[s].step <= Len(session[s].script)

LinesOK == log \in Seq({"begin", "line", "end"} \X {"whole", "bare", "junk"})

(* The log as its writer left it.                                          *)
Clean == log = << >> \/ log[Len(log)][2] = "whole"

(* Past its first line a writer knows the end of the log, past its second  *)
(* that all of it can be read: an append reads the log first, and nothing  *)
(* but a death in one leaves a bare or a broken line.                      *)
LogKnown(s) ==
  /\ session[s].step >= 2 /\ Readable(log) => Clean
  /\ session[s].step >= 4 => Readable(log)

SessionsOK ==
  /\ session = [s \in Sessions |-> session[s]]
  /\ \A s \in Sessions : SessionOK(s)

LogInv ==
  /\ SessionsOK
  /\ LinesOK
  /\ file = [name \in Files |-> file[name]]
  /\ \A s \in Sessions : LogKnown(s)

-----------------------------------------------------------------------------
(* Without write faults.                                                   *)

Stored(c) == c = 0 \/ c \in objects

ParentsOK ==
  /\ parent \in Seq(Nat)
  /\ \A c \in 1..Len(parent) : parent[c] < c

(* What is stored has its parents stored.                                  *)
ObjectsOK ==
  /\ objects \subseteq 1..Len(parent)
  /\ \A c \in objects : Stored(parent[c])

(* The commit that is written comes after stored ones, unless the log is   *)
(* broken and the first append is going to throw.                          *)
WrittenOK(s) ==
  Writing(s) =>
    /\ session[s].commit \in 1..Len(parent)
    /\ session[s].step <= 2 /\ (session[s].step = 2 \/ Readable(log)) =>
         Stored(parent[session[s].commit])
    /\ session[s].step >= 3 => session[s].commit \in objects

(* A head is stored, or is the commit its session is about to put.         *)
HeadOK(s) ==
  /\ session[s].head \in 0..Len(parent)
  /\ Readable(log) =>
       \/ Stored(session[s].head)
       \/ session[s].step \in {1, 2} /\ session[s].head = session[s].commit

StoredInv ==
  /\ LogInv
  /\ faults = 0
  /\ ParentsOK
  /\ ObjectsOK
  /\ Stored(file["ref"])
  /\ \A s \in Sessions : WrittenOK(s) /\ HeadOK(s)

-----------------------------------------------------------------------------
(* A session alone, without write faults.                                  *)

(* Between its first append and its last the commit is in the log.         *)
Bracketed(s) ==
  session[s].step \in 2..(Len(session[s].script) - 1) /\ Readable(log) => Incomplete

(* The ref is before the branch index in two steps of a commit, and after  *)
(* a death in them.                                                        *)
BehindOK(s) ==
  file["ref"] # file["branches"] =>
    /\ Readable(log) => Incomplete
    /\ ~session[s].open \/ (session[s].script = Script /\ session[s].step \in {8, 9})

AloneInv(s) ==
  /\ LogInv
  /\ faults = 0
  /\ At(s, "rename") \/ At(s, "rewrite") => What(s) \in temp
  /\ session[s].script = Script /\ session[s].step \in {8, 9} =>
       file["ref"] = session[s].commit
  /\ Bracketed(s)
  /\ BehindOK(s)

-----------------------------------------------------------------------------

(* A set of numbers has a least one.                                       *)
LEMMA LeastNumber ==
  ASSUME NEW T, T \subseteq Nat, T # {}
  PROVE  \E x \in T : \A y \in T : x <= y
<1> DEFINE R == OpToRel(<, Nat)
<1>1. IsWellFoundedOn(R, Nat)
  BY NatLessThanWellFounded
<1>2. \A x, y \in Nat : y < x => <<y, x>> \in R
  BY DEF OpToRel
<1> HIDE DEF R
<1>3. PICK x \in T : \A y \in T : ~ (<<y, x>> \in R)
  BY <1>1, WFMin
<1> SUFFICES ASSUME NEW y \in T
             PROVE  x <= y
  BY <1>3
<1>4. ~(y < x)
  BY <1>2, <1>3
<1> QED BY <1>4

-----------------------------------------------------------------------------
(* The scripts, step by step.                                              *)

LEMMA ScriptSteps ==
  /\ Len(Script) = 14
  /\ Script =
       <<<<"append", "begin">>, <<"put", "all">>, <<"append", "line">>,
         <<"temp", "commits">>, <<"rename", "commits">>, <<"temp", "ref">>,
         <<"rename", "ref">>, <<"temp", "branches">>, <<"rename", "branches">>,
         <<"append", "line">>, <<"temp", "history">>, <<"rename", "history">>,
         <<"append", "end">>, <<"truncate", "log">>>>
BY DEF Script, LogLine, Put, Temp, Rename, Truncate

LEMMA RejectedSteps ==
  /\ Len(RejectedScript) = 11
  /\ RejectedScript =
       <<<<"append", "begin">>, <<"put", "all">>, <<"append", "line">>,
         <<"temp", "commits">>, <<"rename", "commits">>, <<"temp", "branches">>,
         <<"rewrite", "branches">>, <<"temp", "history">>, <<"rename", "history">>,
         <<"append", "end">>, <<"truncate", "log">>>>
BY DEF RejectedScript, LogLine, Put, Temp, Rename, Rewrite, Truncate

(* What there is at a step: the first line begins and the last but one     *)
(* ends the commit, the objects come second, temporary files follow the    *)
(* second line, and each is renamed at once; only the accepted script      *)
(* moves the ref, and then the branch index.                               *)
StepIs(script, k) ==
  /\ Len(script) \in {11, 14}
  /\ script[k][1] \in {"append", "put", "temp", "rename", "rewrite", "truncate"}
  /\ script[k][1] = "append" =>
       /\ k \in {1, 3, Len(script) - 1} \/ (k = 10 /\ script = Script)
       /\ script[k][2] \in {"begin", "line", "end"}
       /\ script[k][2] = "begin" <=> k = 1
       /\ script[k][2] = "end" <=> k = Len(script) - 1
  /\ script[k][1] = "put" <=> k = 2
  /\ script[k][1] = "truncate" <=> k = Len(script)
  /\ script[k][1] = "temp" =>
       /\ 4 <= k /\ k < Len(script)
       /\ script[k][2] \in Files
       /\ script[k + 1] \in {<<"rename", script[k][2]>>, <<"rewrite", script[k][2]>>}
  /\ script[k][1] = "rewrite" => 5 <= k /\ k < Len(script)
  /\ script[k][1] = "rename" =>
       /\ 5 <= k /\ k < Len(script)
       /\ script[k][2] \in Files
       /\ script[k][2] = "ref" => script = Script /\ k = 7
       /\ script[k][2] = "branches" => script = Script /\ k = 9
  /\ script = Script /\ k \in {7, 9} => script[k][1] = "rename"
  /\ script = Script /\ k = 7 => script[k][2] = "ref"
  /\ script = Script /\ k = 9 => script[k][2] = "branches"
  /\ k < Len(script) /\ script[k + 1][1] \in {"rename", "rewrite"} =>
       script[k] = <<"temp", script[k + 1][2]>>

LEMMA StepShape ==
  ASSUME NEW script \in Scripts, NEW k \in Nat, 0 < k, k <= Len(script)
  PROVE  StepIs(script, k)
<1>1. Script # RejectedScript
  <2>1. Len(Script) # Len(RejectedScript)
    BY ScriptSteps, RejectedSteps
  <2> QED BY <2>1
<1>2. CASE script = Script
  <2>1. k \in {1, 2, 3, 4, 5, 6, 7, 8, 9, 10, 11, 12, 13, 14}
    BY <1>2, ScriptSteps
  <2> QED BY <1>2, <2>1, ScriptSteps DEF StepIs, Files
<1>3. CASE script = RejectedScript
  <2>1. k \in {1, 2, 3, 4, 5, 6, 7, 8, 9, 10, 11}
    BY <1>3, RejectedSteps
  <2> QED BY <1>1, <1>3, <2>1, RejectedSteps DEF StepIs, Files
<1> QED BY <1>2, <1>3 DEF Scripts

(* Where the lines and the temporary files are.                            *)
LEMMA StepsAppend ==
  ASSUME NEW script \in Scripts
  PROVE  script[1][1] = "append" /\ script[3][1] = "append"
BY ScriptSteps, RejectedSteps DEF Scripts

-----------------------------------------------------------------------------
(* The log.                                                                *)

Ops == {"begin", "line", "end"}
LineStates == {"whole", "bare", "junk"}

LEMMA BrokenLine ==
  ASSUME NEW line \in Ops \X LineStates
  PROVE  [line EXCEPT ![2] = "junk"] = <<line[1], "junk">>
<1>1. PICK op \in Ops, state \in LineStates : line = <<op, state>>
  OBVIOUS
<1> QED BY <1>1

(* What an append leaves: nothing that can be read after an unfinished     *)
(* line, one more line otherwise.                                          *)
LEMMA AppendedLine ==
  ASSUME LinesOK, NEW op \in Ops, NEW state \in LineStates
  PROVE  \/ /\ log # << >> /\ log[Len(log)][2] \in {"bare", "junk"}
            /\ Appended(log, op, state) =
                 [log EXCEPT ![Len(log)] = <<log[Len(log)][1], "junk">>]
         \/ /\ Clean
            /\ Appended(log, op, state) = Append(log, <<op, state>>)
<1>1. \A i \in 1..Len(log) : log[i] \in Ops \X LineStates
  BY DEF LinesOK, Ops, LineStates
<1>2. CASE log # << >> /\ log[Len(log)][2] \in {"bare", "junk"}
  <2>1. Len(log) \in 1..Len(log)
    BY <1>2 DEF LinesOK
  <2>2. [log[Len(log)] EXCEPT ![2] = "junk"] = <<log[Len(log)][1], "junk">>
    BY <1>1, <2>1, BrokenLine
  <2>3. Appended(log, op, state) = [log EXCEPT ![Len(log)] = [log[Len(log)] EXCEPT ![2] = "junk"]]
    BY <1>2 DEF Appended, Last
  <2> QED BY <1>2, <2>2, <2>3
<1>3. CASE ~(log # << >> /\ log[Len(log)][2] \in {"bare", "junk"})
  <2>1. Appended(log, op, state) = Append(log, <<op, state>>)
    BY <1>3 DEF Appended, Last
  <2>2. log # << >> => Len(log) \in 1..Len(log)
    BY DEF LinesOK
  <2>3. log # << >> => log[Len(log)][2] \in LineStates
    BY <1>1, <2>2
  <2> QED BY <1>3, <2>1, <2>3 DEF Clean, LineStates
<1> QED BY <1>2, <1>3

LEMMA LogAppended ==
  ASSUME LinesOK, NEW op \in Ops, NEW state \in LineStates,
         log' = Appended(log, op, state)
  PROVE  /\ LinesOK'
         /\ Readable(log') => Readable(log) /\ state # "junk"
         /\ state = "whole" /\ Readable(log) /\ Clean => Readable(log')
         /\ state = "whole" /\ Readable(log') => Clean'
         /\ Readable(log') /\ (op = "begin" \/ (op # "end" /\ Incomplete)) => Incomplete'
<1>0. log \in Seq(Ops \X LineStates)
  BY DEF LinesOK, Ops, LineStates
<1>n. PICK n \in Nat : n = Len(log)
  BY <1>0
<1>l. DOMAIN log = 1..n /\ \A i \in 1..n : log[i] \in Ops \X LineStates
  BY <1>0, <1>n
<1>1. CASE /\ log # << >> /\ log[Len(log)][2] \in {"bare", "junk"}
           /\ log' = [log EXCEPT ![Len(log)] = <<log[Len(log)][1], "junk">>]
  <2>1. n \in 1..n
    BY <1>1, <1>n, <1>0
  <2>2. DOMAIN log' = 1..n /\ log'[n] = <<log[n][1], "junk">>
    BY <1>1, <1>n, <1>l, <2>1
  <2>3. log[n][1] \in Ops
    BY <1>l, <2>1
  <2>4. log' \in Seq(Ops \X LineStates)
    BY <1>0, <1>1, <1>n, <2>1, <2>3 DEF LineStates
  <2>5. ~Readable(log')
    BY <2>1, <2>2 DEF Readable
  <2>6. ~Clean
    BY <1>1 DEF Clean
  <2> QED BY <2>4, <2>5, <2>6 DEF LinesOK, Ops, LineStates
<1>2. CASE Clean /\ log' = Append(log, <<op, state>>)
  <2>1. /\ log' \in Seq(Ops \X LineStates) /\ Len(log') = n + 1 /\ DOMAIN log' = 1..(n + 1)
        /\ log'[n + 1] = <<op, state>> /\ \A i \in 1..n : log'[i] = log[i]
    BY <1>0, <1>2, <1>n
  <2>2. LinesOK'
    BY <2>1 DEF LinesOK, Ops, LineStates
  <2>3. Readable(log') => Readable(log) /\ state # "junk"
    BY <1>l, <2>1 DEF Readable
  <2>4. Readable(log) /\ state # "junk" => Readable(log')
    BY <1>l, <2>1 DEF Readable
  <2>5. state = "whole" => Clean'
    BY <2>1 DEF Clean
  <2>6. ASSUME op # "end", Incomplete
        PROVE  Incomplete'
    <3>1. PICK i \in 1..n : log[i][1] = "begin" /\ \A j \in i..n : log[j][1] # "end"
      BY <1>n, <1>l, <2>6 DEF Incomplete
    <3>2. log'[i][1] = "begin" /\ \A j \in i..(n + 1) : log'[j][1] # "end"
      <4>1. ASSUME NEW j \in i..(n + 1)
            PROVE  log'[j][1] # "end"
        BY <2>1, <2>6, <3>1
      <4> QED BY <2>1, <3>1, <4>1
    <3> QED BY <2>1, <3>2 DEF Incomplete
  <2>7. op = "begin" => Incomplete'
    BY <2>1 DEF Incomplete
  <2> QED BY <2>2, <2>3, <2>4, <2>5, <2>6, <2>7
<1> QED BY <1>1, <1>2, AppendedLine

-----------------------------------------------------------------------------
(* The sessions.                                                           *)

(* The next state changes s alone, and it to a record with these fields.   *)
Becomes(s, open, head, commit, script, step) ==
  /\ session' = [t \in Sessions |-> session'[t]]
  /\ \A t \in Sessions : t # s => session'[t] = session[t]
  /\ session'[s] = [open |-> open, head |-> head, commit |-> commit,
                    script |-> script, step |-> step]

LEMMA BecomesFields ==
  ASSUME NEW s, NEW open, NEW head, NEW commit, NEW script, NEW step,
         Becomes(s, open, head, commit, script, step)
  PROVE  /\ session'[s].open = open /\ session'[s].head = head
         /\ session'[s].commit = commit /\ session'[s].script = script
         /\ session'[s].step = step
BY DEF Becomes

LEMMA Replacing ==
  ASSUME SessionsOK, NEW s \in Sessions, NEW open, NEW head, NEW commit, NEW script, NEW step,
         session' = [session EXCEPT ![s] = [open |-> open, head |-> head, commit |-> commit,
                                            script |-> script, step |-> step]]
  PROVE  Becomes(s, open, head, commit, script, step)
BY DEF SessionsOK, Becomes

LEMMA OthersWait ==
  ASSUME SessionsOK, NEW s \in Sessions, Writing(s), NEW t \in Sessions, t # s
  PROVE  session[t].step = 0
BY DEF SessionsOK, SessionOK, Writing

LEMMA Thrown ==
  ASSUME SessionsOK, NEW s \in Sessions, Throw(s)
  PROVE  LET q == session[s] IN Becomes(s, q.open, q.head, q.commit, q.script, 0)
<1> DEFINE q == session[s]
<1>1. PICK open, head, commit, script, step :
        q = [open |-> open, head |-> head, commit |-> commit, script |-> script, step |-> step]
  BY DEF SessionsOK, SessionOK
<1>2. [q EXCEPT !.step = 0] =
        [open |-> open, head |-> head, commit |-> commit, script |-> script, step |-> 0]
  BY <1>1
<1>3. session' = [session EXCEPT ![s] = [q EXCEPT !.step = 0]]
  BY DEF Throw
<1>4. Becomes(s, open, head, commit, script, 0)
  BY <1>2, <1>3, Replacing
<1> QED BY <1>1, <1>4

LEMMA Advanced ==
  ASSUME SessionsOK, NEW s \in Sessions, Advance(s)
  PROVE  LET q == session[s]
             last == q.step = Len(q.script)
         IN /\ Becomes(s, q.open, q.head, q.commit, q.script, IF last THEN 0 ELSE q.step + 1)
            /\ lock' = IF last THEN Nobody ELSE lock
<1> DEFINE q == session[s]
           next == IF q.step = Len(q.script) THEN 0 ELSE q.step + 1
<1>1. PICK open, head, commit, script, step :
        q = [open |-> open, head |-> head, commit |-> commit, script |-> script, step |-> step]
  BY DEF SessionsOK, SessionOK
<1>2. /\ session' = [session EXCEPT ![s] = [q EXCEPT !.step = next]]
      /\ lock' = IF q.step = Len(q.script) THEN Nobody ELSE lock
  BY DEF Advance
<1> HIDE DEF next
<1>3. [q EXCEPT !.step = next] =
        [open |-> open, head |-> head, commit |-> commit, script |-> script, step |-> next]
  BY <1>1
<1>4. Becomes(s, open, head, commit, script, next)
  BY <1>2, <1>3, Replacing
<1>5. q.open = open /\ q.head = head /\ q.commit = commit /\ q.script = script
  BY <1>1
<1> QED BY <1>2, <1>4, <1>5 DEF next

LEMMA ThrownOK ==
  ASSUME SessionsOK, NEW s \in Sessions, Writing(s), Throw(s)
  PROVE  SessionsOK' /\ \A t \in Sessions : session'[t].step = 0
<1>1. LET q == session[s] IN Becomes(s, q.open, q.head, q.commit, q.script, 0)
  BY Thrown
<1>2. \A t \in Sessions : t # s => session[t].step = 0
  BY OthersWait
<1> QED BY <1>1, <1>2 DEF Becomes, SessionsOK, SessionOK, Writing

LEMMA AdvancedOK ==
  ASSUME SessionsOK, NEW s \in Sessions, Writing(s), Advance(s)
  PROVE  SessionsOK' /\ \A t \in Sessions : t # s => session'[t].step = 0
<1> DEFINE q == session[s]
           next == IF q.step = Len(q.script) THEN 0 ELSE q.step + 1
<1>1. /\ Becomes(s, q.open, q.head, q.commit, q.script, next)
      /\ lock' = IF q.step = Len(q.script) THEN Nobody ELSE lock
  BY Advanced
<1>2. \A t \in Sessions : t # s => session[t].step = 0
  BY OthersWait
<1>3. /\ q.step \in Nat /\ q.step > 0 /\ lock = s /\ q.open /\ q.script \in Scripts
      /\ q.step <= Len(q.script)
  BY DEF SessionsOK, SessionOK, Writing
<1>4. Len(q.script) \in Nat
  BY <1>3, ScriptSteps, RejectedSteps DEF Scripts
<1>5. next \in Nat /\ next <= Len(q.script) /\ (next > 0 => q.step # Len(q.script))
  BY <1>3, <1>4
<1> HIDE DEF next
<1>6. SessionOK(s)'
  BY <1>1, <1>3, <1>5, BecomesFields DEF SessionOK, Writing, Becomes
<1> QED BY <1>1, <1>2, <1>6 DEF Becomes, SessionsOK, SessionOK, Writing

(* A session that starts, opens, closes or dies.                           *)
LEMMA Placed ==
  ASSUME SessionsOK, NobodyAssumption, NEW s \in Sessions, NEW open, NEW head, NEW commit,
         NEW script, NEW step,
         Becomes(s, open, head, commit, script, step),
         \/ step = 0 /\ lock' = lock /\ ~Writing(s)
         \/ step = 0 /\ lock' = Nobody /\ Writing(s)
         \/ step = 1 /\ lock = Nobody /\ lock' = s /\ open /\ script \in Scripts
  PROVE  /\ SessionsOK'
         /\ \A t \in Sessions : t # s /\ step = 1 => session'[t].step = 0
<1>1. /\ session'[s].open = open /\ session'[s].head = head
      /\ session'[s].commit = commit /\ session'[s].script = script
      /\ session'[s].step = step
  BY BecomesFields
<1>2. SessionOK(s)'
  <2>1. Len(Script) = 14 /\ Len(RejectedScript) = 11
    BY ScriptSteps, RejectedSteps
  <2>2. script \in Scripts => Len(script) = 14 \/ Len(script) = 11
    BY <2>1 DEF Scripts
  <2>3. step = 1 => step <= Len(script)
    <3>1. PICK n : n = Len(script)
      OBVIOUS
    <3>2. step = 1 => n = 14 \/ n = 11
      BY <2>2, <3>1
    <3>3. step = 1 => step <= n
      BY ONLY <3>2
    <3> QED BY <3>1, <3>3
  <2> QED BY <1>1, <2>3 DEF SessionOK, Writing, Becomes
<1>3. ASSUME NEW t \in Sessions, t # s
      PROVE  SessionOK(t)' /\ (step = 1 => session'[t].step = 0)
  <2>1. session'[t] = session[t] /\ SessionOK(t)
    BY <1>3 DEF Becomes, SessionsOK
  <2>2. CASE Writing(t)
    <3>1. lock = t /\ ~Writing(s) /\ lock # Nobody
      BY <1>3, <2>1, <2>2, OthersWait DEF SessionOK, NobodyAssumption, Writing
    <3> QED BY <2>1, <3>1 DEF SessionOK, Writing
  <2>3. CASE ~Writing(t)
    BY <2>1, <2>3 DEF SessionOK, Writing
  <2> QED BY <2>2, <2>3
<1> QED BY <1>2, <1>3 DEF SessionsOK, Becomes

LEMMA AtStep ==
  ASSUME SessionsOK, NEW s \in Sessions, NEW kind, At(s, kind)
  PROVE  /\ Writing(s) /\ lock = s /\ session[s].open
         /\ session[s].script \in Scripts
         /\ session[s].step \in Nat /\ 0 < session[s].step
         /\ session[s].step <= Len(session[s].script)
         /\ StepIs(session[s].script, session[s].step)
         /\ session[s].script[session[s].step][1] = kind
         /\ session[s].script[session[s].step][2] = What(s)
<1>1. SessionOK(s) /\ Writing(s)
  BY DEF SessionsOK, At
<1> QED BY <1>1, StepShape DEF SessionOK, Writing, At, What, Current

(* What an action does to the sessions, whichever it is: it throws, goes   *)
(* one step on, or replaces a session that does not write.                 *)
LEMMA CommitPlaces ==
  ASSUME SessionsOK, NEW s \in Sessions, Commit(s)
  PROVE  \E accepted \in BOOLEAN :
           Becomes(s, TRUE, IF accepted THEN Len(parent) + 1 ELSE session[s].head,
                   Len(parent) + 1, IF accepted THEN Script ELSE RejectedScript, 1)
<1>1. PICK accepted \in BOOLEAN :
        session' = [session EXCEPT ![s] =
          [open |-> TRUE,
           head |-> IF accepted THEN Len(parent) + 1 ELSE session[s].head,
           commit |-> Len(parent) + 1,
           script |-> IF accepted THEN Script ELSE RejectedScript,
           step |-> 1]]
  BY DEF Commit
<1> QED BY <1>1, Replacing

LEMMA ClosingPlaces ==
  ASSUME SessionsOK, NEW s \in Sessions, session' = [session EXCEPT ![s] = Closed]
  PROVE  Becomes(s, FALSE, 0, 0, << >>, 0)
BY Replacing DEF Closed

LEMMA OpenPlaces ==
  ASSUME SessionsOK, NEW s \in Sessions, Open(s)
  PROVE  Becomes(s, TRUE, Recovered["branches"], 0, << >>, 0)
BY Replacing DEF Open, OpenAt

-----------------------------------------------------------------------------
(* LogInv is inductive, and a log that cannot be read stays so.            *)

(* An action that goes one step on in its script.                          *)
LEMMA AdvancingLog ==
  ASSUME LogInv, NEW s \in Sessions, NEW kind, At(s, kind), Advance(s),
         file' = [name \in Files |-> file'[name]],
         \/ kind = "append" /\ AppendLine(What(s))
         \/ kind # "append" /\ kind # "truncate" /\ log' = log
         \/ kind = "truncate" /\ log' = << >>
  PROVE  LogInv' /\ (Readable(log') => Readable(log))
<1> DEFINE q == session[s]
           k == session[s].step
<1>1. /\ Writing(s) /\ StepIs(q.script, k) /\ q.script[k][1] = kind
      /\ q.script[k][2] = What(s) /\ k \in Nat /\ 0 < k /\ k <= Len(q.script)
      /\ q.script \in Scripts
  BY AtStep DEF LogInv
<1>2. SessionsOK' /\ \A t \in Sessions : t # s => session'[t].step = 0
  BY <1>1, AdvancedOK DEF LogInv
<1>3. session'[s].step = IF k = Len(q.script) THEN 0 ELSE k + 1
  BY Advanced, BecomesFields DEF LogInv
<1>4. \A t \in Sessions : t # s => LogKnown(t)'
  BY <1>2 DEF LogKnown
<1>5. LogKnown(s) /\ LinesOK
  BY DEF LogInv
<1>6. CASE kind = "append" /\ AppendLine(What(s))
  <2>1. What(s) \in Ops
    BY <1>1, <1>6 DEF StepIs, Ops
  <2>2. /\ LinesOK' /\ (Readable(log') => Readable(log) /\ Clean')
        /\ (Readable(log) /\ Clean => Readable(log'))
    BY <1>5, <1>6, <2>1, LogAppended DEF AppendLine, LineStates
  <2>3. Readable(log) /\ (k >= 3 => Readable(log'))
    BY <1>5, <1>6, <2>2, <1>1 DEF AppendLine, LogKnown
  <2>4. LogKnown(s)'
    BY <1>1, <1>3, <2>2, <2>3 DEF LogKnown
  <2> QED BY <1>2, <1>4, <2>2, <2>4 DEF LogInv
<1>7. CASE kind # "append" /\ kind # "truncate" /\ log' = log
  <2>1. LinesOK' /\ (Clean => Clean')
    BY <1>5, <1>7 DEF LinesOK, Clean
  <2>2. k # 1 /\ k # 3
    BY <1>1, <1>7, StepsAppend DEF LogInv
  <2>3. LogKnown(s)'
    BY <1>1, <1>3, <1>5, <1>7, <2>1, <2>2 DEF LogKnown
  <2> QED BY <1>2, <1>4, <1>7, <2>1, <2>3 DEF LogInv
<1>8. CASE kind = "truncate" /\ log' = << >>
  <2>1. k = Len(q.script) /\ k >= 4
    <3>1. k = Len(q.script)
      BY <1>1, <1>8 DEF StepIs
    <3>2. Len(q.script) \in {11, 14}
      BY <1>1 DEF StepIs
    <3>3. k \in {11, 14}
      BY ONLY <3>1, <3>2
    <3>4. k >= 4
      BY ONLY <3>3
    <3> QED BY <3>1, <3>4
  <2>2. Readable(log) /\ session'[s].step = 0
    BY <1>3, <1>5, <2>1 DEF LogKnown
  <2>3. LinesOK' /\ LogKnown(s)'
    BY <1>8, <2>2 DEF LinesOK, LogKnown
  <2> QED BY <1>2, <1>4, <2>2, <2>3 DEF LogInv
<1> QED BY <1>6, <1>7, <1>8

(* An action after which nobody who wrote writes on.                       *)
LEMMA StoppingLog ==
  ASSUME LogInv, SessionsOK', NEW s \in Sessions, Writing(s),
         \A t \in Sessions : session'[t].step = 0,
         file' = file,
         \/ log' = log
         \/ \E state \in {"bare", "junk"} :
              Readable(log) /\ log' = Appended(log, What(s), state) /\ At(s, "append")
  PROVE  LogInv' /\ (Readable(log') => Readable(log))
<1>1. LinesOK' /\ (Readable(log') => Readable(log))
  <2>1. CASE log' = log
    BY <2>1 DEF LogInv, LinesOK
  <2>2. ASSUME NEW state \in {"bare", "junk"}, Readable(log), At(s, "append"),
               log' = Appended(log, What(s), state)
        PROVE  LinesOK'
    <3>1. What(s) \in Ops
      BY <2>2, AtStep DEF LogInv, StepIs, Ops
    <3> QED BY <2>2, <3>1, LogAppended DEF LogInv, LineStates
  <2> QED BY <2>1, <2>2
<1>2. \A t \in Sessions : LogKnown(t)'
  BY DEF LogKnown
<1> QED BY <1>1, <1>2 DEF LogInv

(* An action of a session that does not write, before and after it.        *)
LEMMA StandingLog ==
  ASSUME LogInv, SessionsOK', NEW s \in Sessions, NEW open, NEW head, NEW commit,
         NEW script, NEW step, step \in {0, 1},
         Becomes(s, open, head, commit, script, step),
         file' = [name \in Files |-> file'[name]],
         log' = log \/ (log' = << >> /\ Readable(log))
  PROVE  LogInv' /\ (Readable(log') => Readable(log))
<1>1. LinesOK' /\ (Readable(log') => Readable(log)) /\ (Readable(log) => Readable(log'))
      /\ (Clean => Clean')
  <2>1. CASE log' = log
    BY <2>1 DEF LogInv, LinesOK, Clean
  <2>2. CASE log' = << >> /\ Readable(log)
    BY <2>2 DEF LogInv, LinesOK, Readable, Clean
  <2> QED BY <2>1, <2>2
<1>2. LogKnown(s)'
  BY BecomesFields DEF LogKnown
<1>3. ASSUME NEW t \in Sessions, t # s
      PROVE  LogKnown(t)'
  BY <1>1, <1>3 DEF Becomes, LogInv, LogKnown
<1> QED BY <1>1, <1>2, <1>3 DEF LogInv

LEMMA LogInvInit ==
  ASSUME Init
  PROVE  LogInv
<1>1. SessionsOK
  BY DEF Init, Closed, SessionsOK, SessionOK, Writing
<1>2. LinesOK /\ file = [name \in Files |-> file[name]]
  BY DEF Init, LinesOK
<1>3. \A s \in Sessions : LogKnown(s)
  BY DEF Init, Closed, LogKnown
<1> QED BY <1>1, <1>2, <1>3 DEF LogInv

LEMMA LogInvStep ==
  ASSUME LogInv, NobodyAssumption, [Next]_vars
  PROVE  LogInv' /\ (Readable(log') => Readable(log))
<1>0. SessionsOK /\ file = [name \in Files |-> file[name]]
  BY DEF LogInv
<1> DEFINE fileOK == file' = [name \in Files |-> file'[name]]
<1>1. ASSUME NEW s \in Sessions, Commit(s)
      PROVE  LogInv' /\ (Readable(log') => Readable(log))
  <2>1. PICK accepted \in BOOLEAN :
          Becomes(s, TRUE, IF accepted THEN Len(parent) + 1 ELSE session[s].head,
                  Len(parent) + 1, IF accepted THEN Script ELSE RejectedScript, 1)
    BY <1>0, <1>1, CommitPlaces
  <2>2. lock = Nobody /\ lock' = s /\ log' = log /\ file' = file
    BY <1>1 DEF Commit
  <2>3. SessionsOK'
    BY <1>0, <2>1, <2>2, Placed DEF Scripts
  <2> QED BY <1>0, <2>1, <2>2, <2>3, StandingLog
<1>2. ASSUME NEW s \in Sessions, StepAppend(s)
      PROVE  LogInv' /\ (Readable(log') => Readable(log))
  BY <1>0, <1>2, AdvancingLog DEF StepAppend
<1>3. ASSUME NEW s \in Sessions, StepPut(s) \/ StepTemp(s) \/ StepRewrite(s)
      PROVE  LogInv' /\ (Readable(log') => Readable(log))
  BY <1>0, <1>3, AdvancingLog DEF StepPut, StepTemp, StepRewrite
<1>4. ASSUME NEW s \in Sessions, StepRename(s)
      PROVE  LogInv' /\ (Readable(log') => Readable(log))
  <2>1. fileOK
    BY <1>0, <1>4 DEF StepRename
  <2> QED BY <1>4, <2>1, AdvancingLog DEF StepRename
<1>5. ASSUME NEW s \in Sessions, StepTruncate(s)
      PROVE  LogInv' /\ (Readable(log') => Readable(log))
  BY <1>0, <1>5, AdvancingLog DEF StepTruncate
<1>6. ASSUME NEW s \in Sessions, AppendThrows(s) \/ RenameThrows(s)
      PROVE  LogInv' /\ (Readable(log') => Readable(log))
  <2>1. Writing(s) /\ Throw(s) /\ log' = log /\ file' = file
    BY <1>6 DEF AppendThrows, RenameThrows, At, disk
  <2> QED BY <1>0, <2>1, ThrownOK, StoppingLog
<1>7. ASSUME NEW s \in Sessions, WriteFails(s)
      PROVE  LogInv' /\ (Readable(log') => Readable(log))
  <2>1. /\ Writing(s) /\ Throw(s) /\ file' = file
        /\ \/ log' = log
           \/ Readable(log) /\ log' = Appended(log, What(s), "junk") /\ At(s, "append")
    BY <1>7 DEF WriteFails, At
  <2> QED BY <1>0, <2>1, ThrownOK, StoppingLog
<1>8. ASSUME NEW s \in Sessions, Crash(s) \/ CrashInAppend(s)
      PROVE  LogInv' /\ (Readable(log') => Readable(log))
  <2>1. /\ Writing(s) /\ session' = [session EXCEPT ![s] = Closed] /\ lock' = Nobody
        /\ file' = file
        /\ \/ log' = log
           \/ \E state \in {"bare", "junk"} :
                Readable(log) /\ log' = Appended(log, What(s), state) /\ At(s, "append")
    BY <1>8 DEF Crash, CrashInAppend, Die
  <2>2. Becomes(s, FALSE, 0, 0, << >>, 0)
    BY <1>0, <2>1, ClosingPlaces
  <2>3. SessionsOK'
    BY <1>0, <2>1, <2>2, Placed
  <2>4. \A t \in Sessions : session'[t].step = 0
    BY <1>0, <2>1, <2>2, OthersWait, BecomesFields DEF Becomes
  <2> QED BY <2>1, <2>3, <2>4, StoppingLog
<1>9. ASSUME NEW s \in Sessions, Open(s)
      PROVE  LogInv' /\ (Readable(log') => Readable(log))
  <2>1. Becomes(s, TRUE, Recovered["branches"], 0, << >>, 0)
    BY <1>0, <1>9, OpenPlaces
  <2>2. ~Writing(s) /\ lock' = lock /\ (log' = log \/ (log' = << >> /\ Readable(log)))
    BY <1>0, <1>9 DEF Open, SessionsOK, SessionOK
  <2>3. SessionsOK'
    BY <1>0, <2>1, <2>2, Placed
  <2>4. fileOK
    BY <1>0, <1>9 DEF Open, Recovered
  <2> QED BY <2>1, <2>2, <2>3, <2>4, StandingLog
<1>10. ASSUME NEW s \in Sessions, Close(s)
       PROVE  LogInv' /\ (Readable(log') => Readable(log))
  <2>1. ~Writing(s) /\ lock' = lock /\ log' = log /\ file' = file
        /\ session' = [session EXCEPT ![s] = Closed]
    BY <1>10 DEF Close, disk
  <2>2. Becomes(s, FALSE, 0, 0, << >>, 0)
    BY <1>0, <2>1, ClosingPlaces
  <2>3. SessionsOK'
    BY <1>0, <2>1, <2>2, Placed
  <2> QED BY <1>0, <2>1, <2>2, <2>3, StandingLog
<1>11. CASE UNCHANGED vars
  <2>1. SessionsOK'
    BY <1>0, <1>11 DEF vars, SessionsOK, SessionOK, Writing
  <2>2. LinesOK' /\ \A s \in Sessions : LogKnown(s)'
    BY <1>11 DEF vars, disk, LogInv, LinesOK, LogKnown, Clean
  <2> QED BY <1>11, <2>1, <2>2 DEF vars, disk, LogInv
<1> QED BY <1>1, <1>2, <1>3, <1>4, <1>5, <1>6, <1>7, <1>8, <1>9, <1>10, <1>11 DEF Next

(* Nothing is published over a log that cannot be read: every append comes *)
(* before a rename and throws, and an opening process throws too.          *)
LEMMA PublishingReads ==
  ASSUME LogInv, [Next]_vars
  PROVE  UnreadableHolds
<1> SUFFICES ASSUME ~Readable(log), file'["ref"] # file["ref"]
             PROVE  FALSE
  BY DEF UnreadableHolds
<1>1. PICK s \in Sessions : StepRename(s) \/ Open(s)
  BY DEF Next, Commit, StepAppend, AppendThrows, StepPut, StepTemp, StepRewrite, RenameThrows, StepTruncate,
         WriteFails, Crash, CrashInAppend, Die, Close, vars, disk
<1>2. StepRename(s)
  BY <1>1 DEF Open
<1>3. session[s].step >= 5
  BY <1>2, AtStep DEF StepRename, LogInv, StepIs
<1>4. session[s].step \in Nat /\ LogKnown(s)
  BY DEF LogInv, SessionsOK, SessionOK
<1> QED BY <1>3, <1>4 DEF LogKnown

(* However many sessions there are and whatever fails: while a line of the *)
(* log cannot be read, no session publishes a commit.                      *)
THEOREM NothingPublishedUnread ==
  ASSUME NobodyAssumption
  PROVE  Spec => [][UnreadableHolds]_vars
<1>1. Init => LogInv
  BY LogInvInit
<1>2. LogInv /\ [Next]_vars => LogInv'
  BY LogInvStep
<1>3. LogInv /\ [Next]_vars => [UnreadableHolds]_vars
  BY PublishingReads
<1> QED BY <1>1, <1>2, <1>3, PTL DEF Spec

-----------------------------------------------------------------------------
(* The commits that a commit stands on.                                    *)

LEMMA FollowIs ==
  ASSUME ParentsOK
  PROVE  Follow = [c \in 0..Len(parent) |->
                     IF c = 0 THEN {} ELSE {c} \cup Follow[parent[c]]]
<1>n. PICK n \in Nat : n = Len(parent)
  BY DEF ParentsOK
<1> DEFINE Closed1(S) == \A c \in S : c # 0 => parent[c] \in S
           From(c) == {d \in 1..n : \A S \in SUBSET (0..n) : c \in S /\ Closed1(S) => d \in S}
           F == [c \in 0..n |-> From(c)]
<1>1. \A c \in 1..n : parent[c] \in 0..n /\ parent[c] # c
  BY <1>n DEF ParentsOK
<1>2. From(0) = {}
  <2>1. {0} \in SUBSET (0..n) /\ 0 \in {0} /\ Closed1({0})
    OBVIOUS
  <2>2. ASSUME NEW d \in From(0)
        PROVE  FALSE
    <3>1. d \in 1..n /\ d \in {0}
      BY <2>1, <2>2
    <3> QED BY <3>1
  <2> QED BY <2>2
<1>3. ASSUME NEW c \in 1..n
      PROVE  From(c) = {c} \cup From(parent[c])
  <2>1. c \in From(c)
    OBVIOUS
  <2>2. ASSUME NEW d \in From(parent[c])
        PROVE  d \in From(c)
    <3>1. ASSUME NEW S \in SUBSET (0..n), c \in S, Closed1(S)
          PROVE  d \in S
      <4>1. parent[c] \in S
        BY <3>1
      <4> QED BY <2>2, <3>1, <4>1
    <3> QED BY <2>2, <3>1
  <2>3. ASSUME NEW d \in From(c), d # c
        PROVE  d \in From(parent[c])
    <3>1. ASSUME NEW S \in SUBSET (0..n), parent[c] \in S, Closed1(S)
          PROVE  d \in S
      <4>1. (S \cup {c}) \in SUBSET (0..n) /\ c \in S \cup {c} /\ Closed1(S \cup {c})
        BY <3>1
      <4>2. d \in S \cup {c}
        BY <2>3, <4>1
      <4> QED BY <2>3, <4>2
    <3> QED BY <2>3, <3>1
  <2> QED BY <2>1, <2>2, <2>3
<1> HIDE DEF From
<1>4. F = [c \in 0..n |-> IF c = 0 THEN {} ELSE {c} \cup F[parent[c]]]
  <2>1. ASSUME NEW c \in 0..n
        PROVE  F[c] = IF c = 0 THEN {} ELSE {c} \cup F[parent[c]]
    <3>1. CASE c = 0
      BY <1>2, <3>1
    <3>2. CASE c # 0
      BY <1>1, <1>3, <3>2
    <3> QED BY <3>1, <3>2
  <2>2. F = [c \in 0..n |-> F[c]]
    OBVIOUS
  <2> HIDE DEF F
  <2> QED BY <2>1, <2>2
<1> DEFINE Body(f) == [c \in 0..n |-> IF c = 0 THEN {} ELSE {c} \cup f[parent[c]]]
<1>5. \E f : f = Body(f)
  BY <1>4
<1>6. Follow = CHOOSE f : f = Body(f)
  BY <1>n DEF Follow
<1> HIDE DEF Body
<1>7. Follow = Body(Follow)
  BY <1>5, <1>6
<1> QED BY <1>7, <1>n DEF Body

(* What stands on stored commits can be materialised.                      *)
LEMMA StoredFollows ==
  ASSUME ParentsOK, ObjectsOK, NEW c \in 0..Len(parent), Stored(c)
  PROVE  Materializable(c)
<1>n. PICK n \in Nat : n = Len(parent)
  BY DEF ParentsOK
<1> DEFINE Bad == {d \in 0..n : Stored(d) /\ ~(Follow[d] \subseteq objects)}
<1> SUFFICES ASSUME Bad # {}
             PROVE  FALSE
  BY <1>n DEF Materializable
<1>1. Bad \subseteq Nat
  OBVIOUS
<1>2. PICK d \in Bad : \A e \in Bad : d <= e
  BY <1>1, LeastNumber
<1>3. Follow[d] = IF d = 0 THEN {} ELSE {d} \cup Follow[parent[d]]
  BY <1>2, <1>n, FollowIs
<1>4. d # 0 /\ d \in objects /\ d \in 1..n
  BY <1>2, <1>3 DEF Stored
<1>5. parent[d] \in 0..n /\ parent[d] < d /\ Stored(parent[d])
  BY <1>4, <1>n DEF ParentsOK, ObjectsOK
<1>6. Follow[parent[d]] \subseteq objects
  BY <1>2, <1>5
<1> QED BY <1>2, <1>3, <1>4, <1>6

-----------------------------------------------------------------------------
(* StoredInv is inductive as long as no write fails.                       *)

Grows ==
  /\ ParentsOK'
  /\ Len(parent) <= Len(parent')
  /\ \A c \in 1..Len(parent) : parent'[c] = parent[c]
  /\ objects \subseteq objects'

LEMMA SameGrows ==
  ASSUME StoredInv, UNCHANGED <<parent, objects>>
  PROVE  Grows /\ ObjectsOK'
<1>1. ParentsOK /\ ObjectsOK /\ Len(parent) \in Nat
  BY DEF StoredInv, ParentsOK
<1> QED BY <1>1 DEF Grows, ParentsOK, ObjectsOK, Stored

LEMMA StoredGrows ==
  ASSUME Grows, NEW c, Stored(c)
  PROVE  Stored(c)'
BY DEF Grows, Stored

LEMMA StoredIsCommit ==
  ASSUME ParentsOK, ObjectsOK, NEW c, Stored(c)
  PROVE  c \in 0..Len(parent)
<1>n. PICK n \in Nat : n = Len(parent)
  BY DEF ParentsOK
<1>1. c = 0 \/ c \in 1..n
  BY <1>n DEF Stored, ObjectsOK
<1>2. c \in 0..n
  BY <1>1
<1> QED BY <1>n, <1>2

LEMMA OthersStored ==
  ASSUME StoredInv, Grows, NEW t \in Sessions, session'[t] = session[t],
         Readable(log') => Readable(log)
  PROVE  WrittenOK(t)' /\ HeadOK(t)'
<1>1. WrittenOK(t) /\ HeadOK(t)
  BY DEF StoredInv
<1>2. Len(parent) \in Nat /\ Len(parent') \in Nat
  BY DEF StoredInv, Grows, ParentsOK
<1>3. WrittenOK(t)'
  BY <1>1, <1>2 DEF WrittenOK, Writing, Grows, Stored
<1>4. HeadOK(t)'
  BY <1>1, <1>2 DEF HeadOK, Grows, Stored
<1> QED BY <1>3, <1>4

(* The session that acts, when it goes a step on.                          *)
LEMMA AdvancingStored ==
  ASSUME StoredInv, Grows, NEW s \in Sessions, NEW kind, At(s, kind), Advance(s),
         Readable(log') => Readable(log),
         kind = "append" => Readable(log),
         kind = "put" => session[s].commit \in objects'
  PROVE  \A t \in Sessions : WrittenOK(t)' /\ HeadOK(t)'
<1> DEFINE q == session[s]
           k == session[s].step
<1>0. SessionsOK
  BY DEF StoredInv, LogInv
<1>1. /\ Writing(s) /\ StepIs(q.script, k) /\ q.script[k][1] = kind
      /\ k \in Nat /\ 0 < k /\ k <= Len(q.script)
  BY <1>0, AtStep
<1>2. PICK m : m = IF k = Len(q.script) THEN 0 ELSE k + 1
  OBVIOUS
<1>3. Becomes(s, q.open, q.head, q.commit, q.script, m)
  BY <1>0, <1>2, Advanced
<1>4. /\ session'[s].step = m /\ session'[s].commit = q.commit /\ session'[s].head = q.head
  BY <1>3, BecomesFields
<1>5. WrittenOK(s) /\ HeadOK(s)
  BY DEF StoredInv
<1>6. Len(parent) \in Nat /\ Len(parent') \in Nat
  BY DEF StoredInv, Grows, ParentsOK
<1>7. k = 1 => kind = "append"
  <2>1. k = 1 => q.script[k][1] = "append"
    BY <1>0, AtStep, StepsAppend
  <2> QED BY <1>1, <2>1
<1>8. k = 2 <=> kind = "put"
  BY <1>1 DEF StepIs
<1>9. WrittenOK(s)'
  BY <1>1, <1>2, <1>4, <1>5, <1>6, <1>7, <1>8 DEF WrittenOK, Writing, Grows, Stored
<1>10. HeadOK(s)'
  <2>1. session'[s].head \in 0..Len(parent')
    BY <1>4, <1>5, <1>6 DEF HeadOK, Grows
  <2>2. k = 1 => m = 2
    <3>1. Len(q.script) \in {11, 14}
      BY <1>1 DEF StepIs
    <3> QED BY <1>2, <3>1
  <2>3. ASSUME Readable(log')
        PROVE  \/ Stored(session[s].head)'
               \/ session'[s].step \in {1, 2} /\ session'[s].head = session'[s].commit
    <3>1. \/ Stored(q.head)
          \/ k \in {1, 2} /\ q.head = q.commit
      BY <1>5, <2>3 DEF HeadOK
    <3>2. CASE Stored(q.head)
      BY <1>4, <3>2, StoredGrows DEF Stored
    <3>3. CASE k = 1 /\ q.head = q.commit
      BY <1>4, <2>2, <3>3
    <3>4. CASE k = 2 /\ q.head = q.commit
      BY <1>4, <1>8, <3>4 DEF Stored
    <3> QED BY <3>1, <3>2, <3>3, <3>4
  <2> QED BY <2>1, <2>3 DEF HeadOK, Stored
<1>11. ASSUME NEW t \in Sessions, t # s
       PROVE  WrittenOK(t)' /\ HeadOK(t)'
  BY <1>3, <1>11, OthersStored DEF Becomes
<1> QED BY <1>9, <1>10, <1>11

(* The session that acts, when it does not write afterwards.               *)
LEMMA StandingStored ==
  ASSUME StoredInv, Grows, NEW s \in Sessions, NEW open, NEW head, NEW commit, NEW script,
         Becomes(s, open, head, commit, script, 0),
         Readable(log') => Readable(log),
         head \in 0..Len(parent), Readable(log') => Stored(head)
  PROVE  \A t \in Sessions : WrittenOK(t)' /\ HeadOK(t)'
<1>1. session'[s].step = 0 /\ session'[s].head = head
  BY BecomesFields
<1>2. Len(parent) \in Nat /\ Len(parent') \in Nat
  BY DEF StoredInv, Grows, ParentsOK
<1>3. WrittenOK(s)'
  BY <1>1 DEF WrittenOK, Writing
<1>4. HeadOK(s)'
  BY <1>1, <1>2 DEF HeadOK, Grows, Stored
<1>5. ASSUME NEW t \in Sessions, t # s
      PROVE  WrittenOK(t)' /\ HeadOK(t)'
  BY <1>5, OthersStored DEF Becomes
<1> QED BY <1>3, <1>4, <1>5

LEMMA CommitStored ==
  ASSUME StoredInv, NobodyAssumption, NEW s \in Sessions, Commit(s)
  PROVE  /\ ParentsOK' /\ ObjectsOK'
         /\ \A t \in Sessions : WrittenOK(t)' /\ HeadOK(t)'
<1>0. SessionsOK
  BY DEF StoredInv, LogInv
<1>n. PICK n \in Nat : n = Len(parent)
  BY DEF StoredInv, ParentsOK
<1>1. PICK accepted \in BOOLEAN :
        Becomes(s, TRUE, IF accepted THEN n + 1 ELSE session[s].head,
                n + 1, IF accepted THEN Script ELSE RejectedScript, 1)
  BY <1>0, <1>n, CommitPlaces
<1>2. PICK head : head = session[s].head
  OBVIOUS
<1>3. /\ head \in 0..n /\ session[s].step = 0 /\ (Readable(log) => Stored(head))
  BY <1>0, <1>n, <1>2 DEF StoredInv, HeadOK, Commit, Writing, SessionsOK, SessionOK
<1>4. /\ parent \in Seq(Nat) /\ parent' = Append(parent, head)
      /\ UNCHANGED <<log, objects>>
  BY <1>2 DEF Commit, StoredInv, ParentsOK
<1>5. /\ parent' \in Seq(Nat) /\ Len(parent') = n + 1 /\ parent'[n + 1] = head
      /\ \A c \in 1..n : parent'[c] = parent[c]
  BY <1>n, <1>3, <1>4
<1>6. ParentsOK'
  BY <1>n, <1>3, <1>5 DEF StoredInv, ParentsOK
<1>7. Grows
  BY <1>n, <1>4, <1>5, <1>6 DEF Grows
<1>8. ObjectsOK'
  BY <1>n, <1>4, <1>5 DEF StoredInv, ObjectsOK, Stored
<1>9. /\ session'[s].step = 1 /\ session'[s].commit = n + 1
      /\ session'[s].head \in {n + 1, head}
  <2>1. PICK new : new = IF accepted THEN n + 1 ELSE session[s].head
    OBVIOUS
  <2>2. PICK script : script = IF accepted THEN Script ELSE RejectedScript
    OBVIOUS
  <2>3. Becomes(s, TRUE, new, n + 1, script, 1)
    BY <1>1, <2>1, <2>2
  <2>4. session'[s].step = 1 /\ session'[s].commit = n + 1 /\ session'[s].head = new
    BY <2>3 DEF Becomes
  <2> QED BY <1>2, <2>1, <2>4
<1>10. WrittenOK(s)'
  BY <1>3, <1>4, <1>5, <1>9 DEF WrittenOK, Writing, Stored
<1>11. HeadOK(s)'
  BY <1>3, <1>4, <1>5, <1>9 DEF HeadOK, Stored
<1>12. ASSUME NEW t \in Sessions, t # s
       PROVE  WrittenOK(t)' /\ HeadOK(t)'
  BY <1>1, <1>4, <1>7, <1>12, OthersStored DEF Becomes
<1> QED BY <1>6, <1>8, <1>10, <1>11, <1>12

LEMMA StoredInvInit ==
  ASSUME Init
  PROVE  StoredInv
<1>1. LogInv
  BY LogInvInit
<1>2. ParentsOK /\ ObjectsOK /\ Stored(file["ref"])
  BY DEF Init, ParentsOK, ObjectsOK, Stored, Files
<1>3. \A s \in Sessions : WrittenOK(s) /\ HeadOK(s)
  BY DEF Init, Closed, WrittenOK, Writing, HeadOK, Stored
<1> QED BY <1>1, <1>2, <1>3 DEF StoredInv, Init

LEMMA StoredInvStep ==
  ASSUME StoredInv, NobodyAssumption, MaxFaults = 0, [Next]_vars
  PROVE  StoredInv'
<1> DEFINE SessionsStored == \A t \in Sessions : WrittenOK(t)' /\ HeadOK(t)'
<1>0. LogInv /\ SessionsOK /\ Stored(file["ref"]) /\ ParentsOK /\ ObjectsOK /\ faults = 0
  BY DEF StoredInv, LogInv
<1>1. LogInv' /\ (Readable(log') => Readable(log))
  BY <1>0, LogInvStep
<1>2. ASSUME NEW s \in Sessions, Commit(s)
      PROVE  StoredInv'
  <2>1. ParentsOK' /\ ObjectsOK' /\ SessionsStored
    BY <1>2, CommitStored
  <2> QED BY <1>0, <1>1, <1>2, <2>1 DEF Commit, StoredInv, Stored
<1>3. ASSUME NEW s \in Sessions, StepAppend(s) \/ StepTemp(s) \/ StepRewrite(s) \/ StepTruncate(s)
      PROVE  StoredInv'
  <2>1. PICK kind \in {"append", "temp", "rewrite", "truncate"} :
          At(s, kind) /\ Advance(s) /\ (kind = "append" => Readable(log))
    BY <1>3 DEF StepAppend, AppendLine, StepTemp, StepRewrite, StepTruncate
  <2>2. UNCHANGED <<parent, objects, file, faults>>
    BY <1>3 DEF StepAppend, StepTemp, StepRewrite, StepTruncate
  <2>3. Grows /\ ObjectsOK'
    BY <2>2, SameGrows
  <2>4. SessionsStored
    BY <1>1, <2>1, <2>3, AdvancingStored
  <2> QED BY <1>0, <1>1, <2>2, <2>3, <2>4 DEF StoredInv, Stored, Grows
<1>4. ASSUME NEW s \in Sessions, StepPut(s)
      PROVE  StoredInv'
  <2>1. /\ objects' = objects \cup {session[s].commit}
        /\ At(s, "put") /\ Advance(s) /\ UNCHANGED <<parent, file, faults>>
    BY <1>4 DEF StepPut
  <2>2. /\ session[s].commit \in 1..Len(parent)
        /\ Stored(parent[session[s].commit])
    <3>1. Writing(s) /\ StepIs(session[s].script, session[s].step)
          /\ session[s].script[session[s].step][1] = "put"
      BY <1>0, <2>1, AtStep
    <3>2. session[s].step = 2
      BY <3>1 DEF StepIs
    <3> QED BY <3>1, <3>2 DEF StoredInv, WrittenOK
  <2>3. Grows /\ ObjectsOK'
    <3>1. Len(parent) \in Nat
      BY <1>0 DEF ParentsOK
    <3>2. Grows
      BY <1>0, <2>1, <3>1 DEF Grows, ParentsOK
    <3>3. objects' \subseteq 1..Len(parent')
      BY <1>0, <2>1, <2>2 DEF ObjectsOK
    <3>4. ASSUME NEW c \in objects'
          PROVE  Stored(parent[c])'
      <4>1. c \in objects \/ c = session[s].commit
        BY <2>1
      <4>2. Stored(parent[c])
        BY <1>0, <2>2, <4>1 DEF ObjectsOK
      <4> QED BY <2>1, <4>2 DEF Stored
    <3> QED BY <3>2, <3>3, <3>4 DEF ObjectsOK
  <2>4. SessionsStored
    BY <1>1, <2>1, <2>3, AdvancingStored
  <2> QED BY <1>0, <1>1, <2>1, <2>3, <2>4 DEF StoredInv, Stored, Grows
<1>5. ASSUME NEW s \in Sessions, StepRename(s)
      PROVE  StoredInv'
  <2>1. /\ file' = [file EXCEPT ![What(s)] = session[s].commit]
        /\ At(s, "rename") /\ Advance(s) /\ UNCHANGED <<parent, objects, faults>>
    BY <1>5 DEF StepRename
  <2>2. session[s].commit \in objects
    <3>1. Writing(s) /\ StepIs(session[s].script, session[s].step)
          /\ session[s].script[session[s].step][1] = "rename"
          /\ session[s].step \in Nat
      BY <1>0, <2>1, AtStep
    <3>2. session[s].step >= 3
      BY <3>1 DEF StepIs
    <3> QED BY <3>1, <3>2 DEF StoredInv, WrittenOK
  <2>3. Grows /\ ObjectsOK'
    BY <2>1, SameGrows
  <2>4. SessionsStored
    BY <1>1, <2>1, <2>3, AdvancingStored
  <2>5. file'["ref"] = file["ref"] \/ file'["ref"] = session[s].commit
    BY <1>0, <2>1 DEF LogInv, Files
  <2>6. Stored(file["ref"])'
    BY <1>0, <2>1, <2>2, <2>5 DEF Stored
  <2> QED BY <1>0, <1>1, <2>1, <2>3, <2>4, <2>6 DEF StoredInv, Grows
<1>6. ASSUME NEW s \in Sessions, AppendThrows(s) \/ RenameThrows(s)
      PROVE  StoredInv'
  <2>1. Throw(s) /\ UNCHANGED <<parent, objects, file, log, faults>>
    BY <1>6 DEF AppendThrows, RenameThrows, disk
  <2>2. PICK q : q = session[s]
    OBVIOUS
  <2>3. Becomes(s, q.open, q.head, q.commit, q.script, 0)
    BY <1>0, <2>1, <2>2, Thrown
  <2>4. q.head \in 0..Len(parent) /\ (Readable(log) => Stored(q.head))
    <3>1. HeadOK(s)
      BY DEF StoredInv
    <3>2. CASE AppendThrows(s)
      BY <2>2, <3>1, <3>2 DEF AppendThrows, HeadOK
    <3>3. CASE RenameThrows(s)
      <4>1. StepIs(session[s].script, session[s].step)
            /\ session[s].script[session[s].step][1] \in {"rename", "rewrite"}
            /\ session[s].step \in Nat
        BY <1>0, <3>3, AtStep DEF RenameThrows
      <4>2. session[s].step \notin {1, 2}
        BY <4>1 DEF StepIs
      <4> QED BY <2>2, <3>1, <4>2 DEF HeadOK
    <3> QED BY <1>6, <3>2, <3>3
  <2>5. Grows /\ ObjectsOK'
    BY <2>1, SameGrows
  <2>6. SessionsStored
    BY <1>1, <2>1, <2>3, <2>4, <2>5, StandingStored
  <2> QED BY <1>0, <1>1, <2>1, <2>5, <2>6 DEF StoredInv, Stored, Grows
<1>7. ASSUME NEW s \in Sessions, WriteFails(s)
      PROVE  FALSE
  BY <1>0, <1>7 DEF WriteFails
<1>8. ASSUME NEW s \in Sessions, Crash(s) \/ CrashInAppend(s) \/ Close(s)
      PROVE  StoredInv'
  <2>1. session' = [session EXCEPT ![s] = Closed] /\ UNCHANGED <<parent, objects, file, faults>>
    BY <1>8 DEF Crash, CrashInAppend, Die, Close, disk
  <2>2. Becomes(s, FALSE, 0, 0, << >>, 0)
    BY <1>0, <2>1, ClosingPlaces
  <2>3. Grows /\ ObjectsOK'
    BY <2>1, SameGrows
  <2>4. 0 \in 0..Len(parent) /\ Stored(0)
    BY <1>0 DEF ParentsOK, Stored
  <2>5. SessionsStored
    BY <1>1, <2>2, <2>3, <2>4, StandingStored
  <2> QED BY <1>0, <1>1, <2>1, <2>3, <2>5 DEF StoredInv, Stored, Grows
<1>9. ASSUME NEW s \in Sessions, Open(s)
      PROVE  StoredInv'
  <2>1. file' = Recovered /\ UNCHANGED <<parent, objects, faults>>
    BY <1>9 DEF Open
  <2>2. PICK head : head = Recovered["branches"]
    OBVIOUS
  <2>3. Becomes(s, TRUE, head, 0, << >>, 0)
    BY <1>0, <1>9, <2>2, OpenPlaces
  <2>4. head = file["ref"] /\ file'["ref"] = file["ref"]
    BY <1>0, <2>1, <2>2 DEF Recovered, IndexesClean, LogInv, Files
  <2>5. Grows /\ ObjectsOK'
    BY <2>1, SameGrows
  <2>6. head \in 0..Len(parent)
    BY <1>0, <2>4, StoredIsCommit
  <2>7. SessionsStored
    BY <1>0, <1>1, <2>3, <2>4, <2>5, <2>6, StandingStored
  <2> QED BY <1>0, <1>1, <2>1, <2>4, <2>5, <2>7 DEF StoredInv, Stored, Grows
<1>10. CASE UNCHANGED vars
  <2>1. UNCHANGED <<parent, objects, file, log, faults, session>>
    BY <1>10 DEF vars, disk
  <2>2. Grows /\ ObjectsOK'
    BY <2>1, SameGrows
  <2>3. SessionsStored
    BY <2>1, <2>2, OthersStored
  <2> QED BY <1>0, <1>1, <2>1, <2>2, <2>3 DEF StoredInv, Stored, Grows
<1> QED BY <1>2, <1>3, <1>4, <1>5, <1>6, <1>7, <1>8, <1>9, <1>10 DEF Next

LEMMA StoredSays ==
  ASSUME StoredInv
  PROVE  RefStandsOnStored
<1>1. ParentsOK /\ ObjectsOK /\ Stored(file["ref"])
  BY DEF StoredInv
<1>2. file["ref"] \in 0..Len(parent)
  BY <1>1, StoredIsCommit
<1> QED BY <1>1, <1>2, StoredFollows DEF RefStandsOnStored

(* As long as no write fails, any number of sessions may write, die and    *)
(* recover: every commit that the ref stands on is stored.                 *)
THEOREM RefIsStored ==
  ASSUME NobodyAssumption, MaxFaults = 0
  PROVE  Spec => []RefStandsOnStored
<1>1. Init => StoredInv
  BY StoredInvInit
<1>2. StoredInv /\ [Next]_vars => StoredInv'
  BY StoredInvStep
<1>3. StoredInv => RefStandsOnStored
  BY StoredSays
<1> QED BY <1>1, <1>2, <1>3, PTL DEF Spec

-----------------------------------------------------------------------------
(* AloneInv is inductive for a session that has the repository to itself.  *)

(* Where the ref and the branch index may differ.                          *)
LEMMA TogetherOutside ==
  ASSUME NEW x \in Sessions, AloneInv(x), session[x].open,
         session[x].script = Script => session[x].step \notin {8, 9}
  PROVE  file["ref"] = file["branches"]
BY DEF AloneInv, BehindOK

LEMMA AppendingTogether ==
  ASSUME SessionsOK, NEW x \in Sessions, At(x, "append")
  PROVE  /\ session[x].open
         /\ session[x].script = Script => session[x].step \notin {8, 9}
<1>1. /\ session[x].open /\ StepIs(session[x].script, session[x].step)
      /\ session[x].script[session[x].step][1] = "append"
  BY AtStep
<1>2. session[x].script = Script => session[x].step \in {1, 3, 13, 10}
  BY <1>1, ScriptSteps DEF StepIs
<1> QED BY <1>1, <1>2

(* What holds of a session that does not write.                            *)
LEMMA StandingAlone ==
  ASSUME NEW x \in Sessions, LogInv', faults' = 0, session'[x].step = 0,
         \/ file'["ref"] = file'["branches"]
         \/ ~session'[x].open /\ (Readable(log') => Incomplete')
  PROVE  AloneInv(x)'
BY DEF AloneInv, At, Writing, Bracketed, BehindOK

(* What is left to show of a session that goes a step on.                  *)
LEMMA AdvancingAlone ==
  ASSUME NEW x \in Sessions, AloneInv(x), LogInv', faults' = 0, NEW kind, At(x, kind),
         Advance(x), kind = "temp" => What(x) \in temp',
         Readable(log') => Readable(log),
         kind = "append" => AppendLine(What(x)),
         kind \notin {"append", "truncate"} => log' = log,
         IF kind = "rename" /\ What(x) \in {"ref", "branches"}
         THEN file' = [file EXCEPT ![What(x)] = session[x].commit]
         ELSE file'["ref"] = file["ref"] /\ file'["branches"] = file["branches"]
  PROVE  AloneInv(x)'
<1> DEFINE q == session[x]
           k == session[x].step
<1>0. LogInv /\ SessionsOK /\ LinesOK
  BY DEF AloneInv, LogInv
<1>1. /\ Writing(x) /\ q.open /\ q.script \in Scripts
      /\ StepIs(q.script, k) /\ q.script[k][1] = kind /\ q.script[k][2] = What(x)
      /\ k \in Nat /\ 0 < k /\ k <= Len(q.script)
  BY <1>0, AtStep
<1>2. PICK n \in Nat : n = Len(q.script)
  BY <1>1, ScriptSteps, RejectedSteps DEF Scripts
<1>3. PICK m : m = IF k = n THEN 0 ELSE k + 1
  OBVIOUS
<1>4. /\ session'[x].step = m /\ session'[x].script = q.script
      /\ session'[x].commit = q.commit /\ session'[x].open
  <2>1. Becomes(x, q.open, q.head, q.commit, q.script, m)
    BY <1>0, <1>2, <1>3, Advanced
  <2>2. /\ session'[x].step = m /\ session'[x].script = q.script
        /\ session'[x].commit = q.commit /\ session'[x].open = q.open
    BY <2>1, BecomesFields
  <2> QED BY <1>1, <2>2
<1>5. m = 0 \/ (m = k + 1 /\ k < n)
  BY <1>1, <1>2, <1>3
<1>6. (At(x, "rename") \/ At(x, "rewrite"))' => What(x)' \in temp'
  <2> SUFFICES ASSUME (At(x, "rename") \/ At(x, "rewrite"))'
               PROVE  What(x)' \in temp'
    OBVIOUS
  <2>1. /\ m = k + 1 /\ k < n /\ q.script[k + 1][1] \in {"rename", "rewrite"}
        /\ What(x)' = q.script[k + 1][2]
    BY <1>4, <1>5 DEF At, Writing, Current, What
  <2>2. q.script[k] = <<"temp", q.script[k + 1][2]>>
    BY <1>1, <1>2, <2>1 DEF StepIs
  <2> QED BY <1>1, <2>1, <2>2
<1>7. Bracketed(x)'
  <2> SUFFICES ASSUME m \in 2..(n - 1), Readable(log')
               PROVE  Incomplete'
    BY <1>2, <1>4 DEF Bracketed
  <2>1. m = k + 1 /\ k < n - 1 /\ Readable(log)
    BY <1>1, <1>2, <1>5
  <2>2. k >= 2 => Incomplete
    BY <1>1, <1>2, <2>1 DEF AloneInv, Bracketed
  <2>3. CASE kind = "append"
    <3>1. /\ What(x) \in Ops /\ (What(x) = "begin" <=> k = 1)
          /\ What(x) # "end"
      BY <1>1, <1>2, <2>1, <2>3 DEF StepIs, Ops
    <3>2. What(x) = "begin" \/ Incomplete
      BY <1>1, <2>2, <3>1
    <3>3. log' = Appended(log, What(x), "whole")
      BY <2>3 DEF AppendLine
    <3> QED BY <1>0, <3>1, <3>2, <3>3, LogAppended DEF LineStates
  <2>4. CASE kind # "append"
    <3>1. k # 1
      BY <1>1, <2>4, StepsAppend
    <3>2. kind # "truncate"
      BY <1>1, <1>2, <2>1 DEF StepIs
    <3>3. log' = log
      BY <2>4, <3>2
    <3> QED BY <1>1, <2>2, <3>1, <3>3 DEF Incomplete
  <2> QED BY <2>3, <2>4
<1>8. q.script = Script /\ k \in {8, 9} => k # n
  BY <1>2, ScriptSteps
<1>9. CASE kind = "rename" /\ What(x) = "ref"
  <2>1. q.script = Script /\ k = 7 /\ m = 8
    BY <1>1, <1>2, <1>5, <1>3, <1>9 DEF StepIs
  <2>2. file'["ref"] = q.commit
    BY <1>0, <1>9 DEF LogInv, Files
  <2>3. Readable(log') => Incomplete'
    BY <1>2, <1>4, <1>7, <2>1, ScriptSteps DEF Bracketed
  <2>4. BehindOK(x)'
    BY <1>4, <2>1, <2>3 DEF BehindOK
  <2> QED BY <1>4, <1>6, <1>7, <2>2, <2>4 DEF AloneInv
<1>10. CASE kind = "rename" /\ What(x) = "branches"
  <2>1. q.script = Script /\ k = 9 /\ m = 10
    BY <1>1, <1>2, <1>5, <1>3, <1>8, <1>10 DEF StepIs
  <2>2. file'["branches"] = q.commit /\ file'["ref"] = file["ref"]
    BY <1>0, <1>10 DEF LogInv, Files
  <2>3. file["ref"] = q.commit
    BY <2>1 DEF AloneInv
  <2>4. BehindOK(x)'
    BY <2>2, <2>3 DEF BehindOK
  <2> QED BY <1>4, <1>6, <1>7, <2>1, <2>4 DEF AloneInv
<1>11. CASE ~(kind = "rename" /\ What(x) \in {"ref", "branches"})
  <2>1. file'["ref"] = file["ref"] /\ file'["branches"] = file["branches"]
    BY <1>11
  <2>2. ~(q.script = Script /\ k \in {7, 9})
    BY <1>1, <1>11 DEF StepIs
  <2>3. q.script = Script /\ m \in {8, 9} => m = 9 /\ k = 8 /\ file'["ref"] = q.commit
    BY <1>1, <1>5, <2>1, <2>2 DEF AloneInv
  <2>4. BehindOK(x)'
    <3>1. CASE q.script = Script /\ k = 8
      <4>1. m = 9
        BY <1>3, <1>8, <3>1
      <4>2. Readable(log') => Incomplete'
        BY <1>2, <1>4, <1>7, <3>1, <4>1, ScriptSteps DEF Bracketed
      <4> QED BY <1>4, <3>1, <4>1, <4>2 DEF BehindOK
    <3>2. CASE ~(q.script = Script /\ k = 8)
      <4>1. file["ref"] = file["branches"]
        BY <1>1, <2>2, <3>2, TogetherOutside
      <4> QED BY <2>1, <4>1 DEF BehindOK
    <3> QED BY <3>1, <3>2
  <2> QED BY <1>4, <1>6, <1>7, <2>3, <2>4 DEF AloneInv
<1> QED BY <1>9, <1>10, <1>11

LEMMA AloneInvInit ==
  ASSUME Init, NEW x \in Sessions
  PROVE  AloneInv(x)
<1>1. LogInv
  BY LogInvInit
<1> QED BY <1>1 DEF Init, Closed, Files, AloneInv, At, Writing, Bracketed, BehindOK

LEMMA AloneInvStep ==
  ASSUME NobodyAssumption, MaxFaults = 0, NEW x, Sessions = {x}, AloneInv(x), [Next]_vars
  PROVE  AloneInv(x)'
<1>0. x \in Sessions /\ LogInv /\ SessionsOK /\ faults = 0
      /\ file = [name \in Files |-> file[name]]
  BY DEF AloneInv, LogInv
<1>1. LogInv' /\ (Readable(log') => Readable(log))
  BY <1>0, LogInvStep
<1>2. CASE Commit(x)
  <2>1. session[x].open /\ session[x].step = 0 /\ UNCHANGED <<file, faults>>
    BY <1>0, <1>2 DEF Commit, Writing, SessionsOK, SessionOK
  <2>2. file["ref"] = file["branches"]
    BY <1>0, <2>1, TogetherOutside
  <2>3. PICK accepted \in BOOLEAN :
          Becomes(x, TRUE, IF accepted THEN Len(parent) + 1 ELSE session[x].head,
                  Len(parent) + 1, IF accepted THEN Script ELSE RejectedScript, 1)
    BY <1>0, <1>2, CommitPlaces
  <2>4. PICK script \in Scripts : script = IF accepted THEN Script ELSE RejectedScript
    BY DEF Scripts
  <2>5. session'[x].step = 1 /\ session'[x].script = script
    <3>1. PICK head : head = IF accepted THEN Len(parent) + 1 ELSE session[x].head
      OBVIOUS
    <3>2. Becomes(x, TRUE, head, Len(parent) + 1, script, 1)
      BY <2>3, <2>4, <3>1
    <3> QED BY <3>2 DEF Becomes
  <2>6. ~At(x, "rename")' /\ ~At(x, "rewrite")'
    BY <2>4, <2>5, StepsAppend DEF At, Current
  <2> QED BY <1>0, <1>1, <2>1, <2>2, <2>5, <2>6 DEF AloneInv, Bracketed, BehindOK
<1>3. CASE StepAppend(x)
  BY <1>0, <1>1, <1>3, AdvancingAlone DEF StepAppend, AppendLine
<1>4. CASE StepPut(x)
  BY <1>0, <1>1, <1>4, AdvancingAlone DEF StepPut
<1>5. CASE StepTemp(x)
  BY <1>0, <1>1, <1>5, AdvancingAlone DEF StepTemp
<1>6. CASE StepRename(x)
  <2>1. /\ At(x, "rename") /\ Advance(x) /\ UNCHANGED <<log, faults>>
        /\ file' = [file EXCEPT ![What(x)] = session[x].commit]
    BY <1>6 DEF StepRename
  <2>2. What(x) \notin {"ref", "branches"} =>
          file'["ref"] = file["ref"] /\ file'["branches"] = file["branches"]
    BY <1>0, <2>1 DEF Files
  <2> QED BY <1>0, <1>1, <2>1, <2>2, AdvancingAlone
<1>7. CASE StepRewrite(x)
  BY <1>0, <1>1, <1>7, AdvancingAlone DEF StepRewrite
<1>8. CASE StepTruncate(x)
  BY <1>0, <1>1, <1>8, AdvancingAlone DEF StepTruncate
<1>9. CASE AppendThrows(x)
  <2>1. session[x].open /\ (session[x].script = Script => session[x].step \notin {8, 9})
    BY <1>0, <1>9, AppendingTogether DEF AppendThrows
  <2>2. file["ref"] = file["branches"]
    BY <1>0, <2>1, TogetherOutside
  <2>3. Throw(x) /\ Writing(x) /\ UNCHANGED <<file, faults>>
    BY <1>9 DEF AppendThrows, At, disk
  <2>4. session'[x].step = 0
    BY <1>0, <2>3, ThrownOK
  <2> QED BY <1>0, <1>1, <2>2, <2>3, <2>4, StandingAlone
<1>10. CASE RenameThrows(x)
  BY <1>10 DEF RenameThrows, AloneInv
<1>11. CASE WriteFails(x)
  BY <1>0, <1>11 DEF WriteFails
<1>12. CASE Crash(x) \/ CrashInAppend(x)
  <2>1. session' = [session EXCEPT ![x] = Closed] /\ UNCHANGED <<file, faults>>
    BY <1>12 DEF Crash, CrashInAppend, Die
  <2>2. session'[x].step = 0 /\ ~session'[x].open
    <3>1. Becomes(x, FALSE, 0, 0, << >>, 0)
      BY <1>0, <2>1, ClosingPlaces
    <3> QED BY <3>1 DEF Becomes
  <2>3. CASE Crash(x)
    BY <1>0, <1>1, <2>1, <2>2, <2>3, StandingAlone DEF Crash, AloneInv, BehindOK, Incomplete
  <2>4. CASE CrashInAppend(x)
    <3>1. session[x].open /\ (session[x].script = Script => session[x].step \notin {8, 9})
      BY <1>0, <2>4, AppendingTogether DEF CrashInAppend
    <3>2. file["ref"] = file["branches"]
      BY <1>0, <3>1, TogetherOutside
    <3> QED BY <1>0, <1>1, <2>1, <2>2, <3>2, StandingAlone
  <2> QED BY <1>12, <2>3, <2>4
<1>13. CASE Open(x)
  <2>1. PICK head : head = Recovered["branches"]
    OBVIOUS
  <2>2. Becomes(x, TRUE, head, 0, << >>, 0)
    BY <1>0, <1>13, <2>1, OpenPlaces
  <2>3. file'["ref"] = file'["branches"]
    BY <1>0, <1>13 DEF Open, Recovered, IndexesClean, Files
  <2>4. session'[x].step = 0 /\ faults' = 0
    BY <1>0, <1>13, <2>2 DEF Open, Becomes
  <2> QED BY <1>0, <1>1, <2>3, <2>4, StandingAlone
<1>14. CASE Close(x)
  <2>1. session[x].open /\ session[x].step = 0 /\ UNCHANGED <<file, faults>>
        /\ session' = [session EXCEPT ![x] = Closed]
    BY <1>0, <1>14 DEF Close, Writing, SessionsOK, SessionOK, disk
  <2>2. file["ref"] = file["branches"]
    BY <1>0, <2>1, TogetherOutside
  <2>3. session'[x].step = 0
    <3>1. Becomes(x, FALSE, 0, 0, << >>, 0)
      BY <1>0, <2>1, ClosingPlaces
    <3> QED BY <3>1 DEF Becomes
  <2> QED BY <1>0, <1>1, <2>1, <2>2, <2>3, StandingAlone
<1>15. CASE UNCHANGED vars
  BY <1>1, <1>15 DEF vars, disk, AloneInv, At, Writing, What, Current, Bracketed, BehindOK, Incomplete
<1>16. Next => \/ Commit(x) \/ StepAppend(x) \/ AppendThrows(x) \/ StepPut(x) \/ StepTemp(x)
               \/ StepRename(x) \/ StepRewrite(x) \/ RenameThrows(x) \/ StepTruncate(x)
               \/ WriteFails(x) \/ Crash(x) \/ CrashInAppend(x)
               \/ Open(x) \/ Close(x)
  BY DEF Next
<1> QED BY <1>2, <1>3, <1>4, <1>5, <1>6, <1>7, <1>8, <1>9, <1>10, <1>11, <1>12, <1>13, <1>14, <1>15, <1>16

LEMMA AloneSays ==
  ASSUME NEW x, Sessions = {x}, AloneInv(x)
  PROVE  InterruptedIsLogged
<1> SUFFICES ASSUME Quiet, Readable(log), file["ref"] # file["branches"]
             PROVE  Incomplete
  BY DEF InterruptedIsLogged
<1> QED BY DEF AloneInv, BehindOK

(* A session that has the repository to itself, and may die anywhere, also *)
(* in the middle of a line: what it left half published is in the log.     *)
THEOREM InterruptedByOne ==
  ASSUME NobodyAssumption, MaxFaults = 0, NEW x, Sessions = {x}
  PROVE  Spec => []InterruptedIsLogged
<1>1. Init => AloneInv(x)
  BY AloneInvInit
<1>2. AloneInv(x) /\ [Next]_vars => AloneInv(x)'
  BY AloneInvStep
<1>3. AloneInv(x) => InterruptedIsLogged
  BY AloneSays
<1> QED BY <1>1, <1>2, <1>3, PTL DEF Spec
=============================================================================
