--------------------------- MODULE TimedWaitProofs ---------------------------
(***************************************************************************)
(* Proofs, for any number of waits and of threads that complete the        *)
(* promise, that a wait is decided once and wakes its coroutine once.       *)
(***************************************************************************)
EXTENDS TimedWait, TLAPS

Before == {"deadline", "suspend", "inner", "register"}

\* What is known of the coroutine's position.
AtWait ==
    /\ wait \in Waits \/ (wait = 0 /\ pc = "running")
    /\ \A w \in Waits : w > wait => selected[w] = "none" /\ result[w] = "none"
    /\ \A w \in Waits : result[w] # "none" <=> w < wait \/ (w = wait /\ pc = "running")
    /\ \A w \in Waits : result[w] # "none" => selected[w] # "none"
    /\ \A w \in Waits : result[w] = "ready" => pc = "running" /\ w = wait
    /\ pc \in Before => selected[wait] = "none"
    /\ pc \in {"resume", "settle"} => selected[wait] # "none"

\* Who may hold or post what.
Ownership ==
    /\ \A k \in tokens : k[2] = wait /\ pc \in {"register", "suspended", "resume"}
    /\ <<"timeout", wait>> \in tokens => wait \in timed
    /\ \A w \in waiters : w = wait /\ pc \in {"suspended", "resume", "settle"}
    /\ terminal # "Pending" => waiters = {}
    /\ timers \subseteq timed /\ \A w \in timed \cup timers \cup overdue : w <= wait
    /\ pc \in Before => wait \notin overdue
    /\ overdue \subseteq late \cap timed

\* What a thread relies on while its posting of a token is at p.
Relies(p) ==
    p.step # "idle" =>
        /\ p.token[2] \in Waits /\ p.token[2] <= wait
        /\ p.token[2] = wait => pc \notin Before
        /\ p.as = "ready" => p.token[1] = "ready"
        /\ p.token[1] = "ready" => terminal # "Pending"
        /\ p.as = "timeout" => p.token[2] \in late \cap timed
        /\ p.step = "clock" => p.token[2] \in timed /\ p.token[1] = "ready"
        /\ p.step = "select" /\ p.as = "ready" => p.token[2] \notin overdue

\* Every thread may rely on it.
Posters == \A t \in Threads : Relies(posting[t])

\* A wait is decided truthfully, and the frame is on its way once it is decided.
Decisions ==
    /\ \A w \in Waits : selected[w] = "ready" => terminal # "Pending" /\ w \notin overdue
    /\ \A w \in Waits : selected[w] = "timeout" => w \in late \cap timed
    /\ \A w \in Waits : result[w] # "none" => result[w] = selected[w]
    /\ pc = "suspended" /\ selected[wait] # "none" => queued = 1 \/ Winners # {}
    /\ queued = 1 \/ Winners # {} => selected[wait] # "none"

\* The inductive invariant.
IInv ==
    /\ TypeOK /\ AtWait /\ Ownership /\ Posters /\ Decisions
    /\ NoStaleWakeup /\ NoContractViolation /\ TimeoutKeepsValue

------------------------------------------------------------------------------
(* A thread's posting of a token                                            *)

\* A thread that posts nothing.
LEMMA IdleType == Idle \in Postings /\ Idle.step = "idle"
BY DEF Idle, Postings

\* The first step of posting the token of kind k of wait w.
LEMMA TakingType ==
    ASSUME NEW k \in {"ready", "timeout"}, NEW w \in Waits
    PROVE  /\ Taking(k, w) \in Postings
           /\ Taking(k, w).step = "take"
           /\ Taking(k, w).token = <<k, w>>
           /\ Taking(k, w).as = k
BY DEF Taking, Postings

\* A step of one thread's posting leaves the others what they rely on.
LEMMA OthersRely ==
    ASSUME Posters, NEW t \in Threads, Relies(posting[t])',
           UNCHANGED <<terminal, wait, pc, timed, late, overdue>>,
           \A u \in Threads \ {t} : posting'[u] = posting[u]
    PROVE  Posters'
<1> SUFFICES ASSUME NEW u \in Threads PROVE Relies(posting[u])'
  BY DEF Posters
<1>1. CASE u = t
  BY <1>1
<1>2. CASE u # t
  BY <1>2 DEF Posters, Relies
<1> QED
  BY <1>1, <1>2

\* Going on to another step changes that thread's step only.
LEMMA GoesOn ==
    ASSUME posting \in [Threads -> Postings], NEW t \in Threads,
           NEW x \in {"clock", "select", "cancel", "enqueue"}, Goes(t, x)
    PROVE  /\ posting' \in [Threads -> Postings]
           /\ posting'[t].step = x
           /\ posting'[t].token = posting[t].token
           /\ posting'[t].as = posting[t].as
           /\ \A u \in Threads \ {t} : posting'[u] = posting[u]
BY DEF Goes, Postings

\* Stopping changes that thread only.
LEMMA StopsThere ==
    ASSUME posting \in [Threads -> Postings], NEW t \in Threads, Stops(t)
    PROVE  /\ posting' \in [Threads -> Postings]
           /\ posting'[t].step = "idle"
           /\ \A u \in Threads \ {t} : posting'[u] = posting[u]
BY IdleType DEF Stops

------------------------------------------------------------------------------
(* The invariant holds initially and every step preserves it                *)

\* A promise that is pending and a coroutine that has not waited satisfy the invariant.
LEMMA InitIInv == Init => IInv
<1> SUFFICES ASSUME Init PROVE IInv
  OBVIOUS
<1> USE WaitAssumption DEF Init, Idle
<1>1. TypeOK
  <2>1. posting \in [Threads -> Postings]
    BY IdleType
  <2>2. /\ consumed \in BOOLEAN /\ violated \in BOOLEAN
        /\ terminal \in Terminals \cup {"Pending"}
    OBVIOUS
  <2>3. /\ selected \in [Waits -> {"none", "ready", "timeout"}]
        /\ result \in [Waits -> {"none", "ready", "timeout"}]
    OBVIOUS
  <2>4. queued \in Nat /\ wait \in 0..Rounds
    OBVIOUS
  <2>5. /\ waiters \subseteq Waits /\ timed \subseteq Waits /\ late \subseteq Waits
        /\ timers \subseteq Waits /\ overdue \subseteq Waits
        /\ tokens \subseteq {"ready", "timeout"} \X Waits
    OBVIOUS
  <2> QED
    BY <2>1, <2>2, <2>3, <2>4, <2>5 DEF TypeOK
<1>2. AtWait /\ Ownership /\ Posters
  BY DEF AtWait, Ownership, Posters, Relies, Before, Waits
<1>3. Winners = {}
  BY DEF Winners
<1> QED
  BY <1>1, <1>2, <1>3 DEF IInv, Decisions, NoStaleWakeup, NoContractViolation, TimeoutKeepsValue

\* await_ready of the inner awaitable decides a new wait only if the promise is complete.
LEMMA BeginWaitPreserves ==
    ASSUME IInv, BeginWait
    PROVE  IInv'
<1> USE WaitAssumption DEF IInv, TypeOK, Postings, Waits, Threads, Terminals, promiseVars, waitVars,
           BeginWait, Select, Idle, Taking, Goes, Stops, TokenWait, Winners, Before
<1>1. TypeOK'
  <2>1. wait + 1 \in Waits
    BY DEF AtWait
  <2>2. timed' \subseteq Waits
    BY <2>1
  <2>3. selected' \in [Waits -> {"none", "ready", "timeout"}]
    BY <2>1
  <2> QED
    BY <2>1, <2>2, <2>3
<1>2. AtWait'
  BY DEF AtWait
<1>3. Ownership'
  BY DEF Ownership
<1>4. Posters'
  BY DEF Posters, Relies
<1>5. Decisions'
  BY DEF AtWait, Ownership, Posters, Relies, Decisions, NoStaleWakeup, NoContractViolation, TimeoutKeepsValue
<1>6. NoStaleWakeup'
  BY DEF NoStaleWakeup
<1>7. NoContractViolation'
  BY DEF NoContractViolation
<1>8. TimeoutKeepsValue'
  BY DEF TimeoutKeepsValue
<1> QED
  BY <1>1, <1>2, <1>3, <1>4, <1>5, <1>6, <1>7, <1>8

\* await_ready decides the timeout only behind the deadline.
LEMMA ReadyDeadlinePreserves ==
    ASSUME IInv, ReadyDeadline
    PROVE  IInv'
<1> USE WaitAssumption DEF IInv, TypeOK, Postings, Waits, Threads, Terminals, promiseVars, waitVars,
           ReadyDeadline, Select, Idle, Taking, Goes, Stops, TokenWait, Winners, Before
<1>1. TypeOK'
  OBVIOUS
<1>2. AtWait'
  BY DEF AtWait
<1>3. Ownership'
  BY DEF Ownership
<1>4. Posters'
  BY DEF Posters, Relies
<1>5. Decisions'
  BY DEF Decisions
<1>6. NoStaleWakeup'
  BY DEF NoStaleWakeup
<1>7. NoContractViolation'
  BY DEF NoContractViolation
<1>8. TimeoutKeepsValue'
  BY DEF TimeoutKeepsValue
<1> QED
  BY <1>1, <1>2, <1>3, <1>4, <1>5, <1>6, <1>7, <1>8

\* await_suspend behind the deadline decides the wait and posts the frame itself.
LEMMA SuspendDeadlinePreserves ==
    ASSUME IInv, SuspendDeadline
    PROVE  IInv'
<1> USE WaitAssumption DEF IInv, TypeOK, Postings, Waits, Threads, Terminals, promiseVars, waitVars,
           SuspendDeadline, Select, Idle, Taking, Goes, Stops, TokenWait, Winners, Before
<1>1. TypeOK'
  OBVIOUS
<1>2. AtWait'
  BY DEF AtWait
<1>3. Ownership'
  BY DEF Ownership
<1>4. Posters'
  BY DEF Posters, Relies
<1>5. Decisions'
  BY DEF Decisions, AtWait, NoStaleWakeup
<1>6. NoStaleWakeup'
  BY DEF NoStaleWakeup
<1>7. NoContractViolation'
  BY DEF NoContractViolation
<1>8. TimeoutKeepsValue'
  BY DEF TimeoutKeepsValue
<1> QED
  BY <1>1, <1>2, <1>3, <1>4, <1>5, <1>6, <1>7, <1>8

\* Tokens are made for the current wait only, a timer for a timed one only.
LEMMA MakeTokensPreserves ==
    ASSUME IInv, MakeTokens
    PROVE  IInv'
<1> USE WaitAssumption DEF IInv, TypeOK, Postings, Waits, Threads, Terminals, promiseVars, waitVars,
           MakeTokens, Select, Idle, Taking, Goes, Stops, TokenWait, Winners, Before
<1>1. TypeOK'
  <2>1. tokens' \subseteq {"ready", "timeout"} \X Waits
    BY DEF AtWait
  <2>2. /\ timers' \subseteq Waits
        /\ selected' \in [Waits -> {"none", "ready", "timeout"}]
        /\ queued' \in Nat
    <3>1. CASE wait \in timed /\ terminal # "Pending"
      <4>1. timers' = timers /\ queued' = queued + 1
        BY <3>1
      <4>2. selected' = [selected EXCEPT ![wait] = "ready"] \/ selected' = selected
        BY <3>1
      <4> HIDE DEF MakeTokens, Select
      <4> QED
        BY <4>1, <4>2
    <3>2. CASE ~(wait \in timed /\ terminal # "Pending")
      BY <3>2
    <3> QED
      BY <3>1, <3>2
  <2>3. pc' \in {"suspended", "register"}
    OBVIOUS
  <2>4. UNCHANGED <<terminal, waiters, consumed, timed, late, wait, result, posting, overdue,
                    violated>>
    OBVIOUS
  <2> HIDE DEF MakeTokens, Select
  <2> QED
    BY <2>1, <2>2, <2>3, <2>4
<1>2. AtWait'
  BY DEF AtWait
<1>3. Ownership'
  <2>1. \A k \in tokens' : k[2] = wait /\ pc' \in {"register", "suspended", "resume"}
    BY DEF Ownership
  <2>2. (<<"timeout", wait>> \in tokens => wait \in timed)'
    BY DEF Ownership
  <2>3. timers' \subseteq timed' /\ \A w \in (timed \cup timers \cup overdue)' : w <= wait
    BY DEF Ownership
  <2> QED
    BY <2>1, <2>2, <2>3 DEF Ownership
<1>4. Posters'
  BY DEF Posters, Relies
<1>5. Decisions'
  BY DEF AtWait, Ownership, Posters, Relies, Decisions, NoStaleWakeup, NoContractViolation, TimeoutKeepsValue
<1>6. NoStaleWakeup'
  BY DEF NoStaleWakeup
<1>7. NoContractViolation'
  BY DEF NoContractViolation
<1>8. TimeoutKeepsValue'
  BY DEF TimeoutKeepsValue
<1> QED
  BY <1>1, <1>2, <1>3, <1>4, <1>5, <1>6, <1>7, <1>8

\* wait_or_post registers the wait, or makes the runner post its token.
LEMMA RegisterPreserves ==
    ASSUME IInv, Register
    PROVE  IInv'
<1> USE DEF IInv, TypeOK, waitVars, TokenWait
<1>1. Runner \in Threads /\ wait \in Waits /\ selected[wait] = "none" /\ pc = "register"
  BY DEF Threads, AtWait, Before, Register
<1>2. /\ posting' \in [Threads -> Postings]
      /\ posting'[Runner].step \in {"idle", "take"}
      /\ posting'[Runner].step # "idle" => /\ posting'[Runner].token = <<"ready", wait>>
                                           /\ posting'[Runner].as = "ready"
                                           /\ terminal # "Pending"
      /\ \A u \in Threads \ {Runner} : posting'[u] = posting[u]
  <2>1. CASE terminal # "Pending"
    BY <1>1, <2>1, TakingType DEF Register
  <2>2. CASE terminal = "Pending"
    BY <1>1, <2>2, IdleType DEF Register
  <2> QED
    BY <2>1, <2>2
<1>3. Winners' = Winners /\ \A u \in Winners : TokenWait(u)' = TokenWait(u)
  BY <1>1, <1>2, IdleType DEF Winners, Register
<1>4. Winners = {} /\ queued # 1
  BY <1>1 DEF NoStaleWakeup
<1>5. waiters = {}
  BY <1>1 DEF Ownership
<1>6. waiters' \subseteq {wait} /\ (terminal # "Pending" => waiters' = {}) /\ violated' = violated
  BY <1>5 DEF Register, NoContractViolation
<1>7. TypeOK'
  BY <1>1, <1>2, <1>6 DEF Register
<1>8. AtWait'
  BY <1>1 DEF AtWait, Before, Register
<1>9. Ownership'
  BY <1>1, <1>6 DEF Ownership, Before, Register
<1>10. Posters'
  BY <1>1, <1>2, WaitAssumption DEF Posters, Relies, Before, Register, Waits
<1>11. Decisions' /\ NoStaleWakeup'
  BY <1>1, <1>3, <1>4 DEF Decisions, NoStaleWakeup, Register
<1> QED
  BY <1>6, <1>7, <1>8, <1>9, <1>10, <1>11 DEF NoContractViolation, TimeoutKeepsValue, Register

\* The frame that is resumed was queued once and leaves the queue empty.
LEMMA ResumeFramePreserves ==
    ASSUME IInv, ResumeFrame
    PROVE  IInv'
<1> USE WaitAssumption DEF IInv, TypeOK, Postings, Waits, Threads, Terminals, promiseVars, waitVars,
           ResumeFrame, Select, Idle, Taking, Goes, Stops, TokenWait, Winners, Before
<1>1. TypeOK'
  OBVIOUS
<1>2. AtWait'
  BY DEF AtWait, Decisions, NoStaleWakeup
<1>3. Ownership'
  BY DEF Ownership
<1>4. Posters'
  BY DEF Posters, Relies
<1>5. Decisions'
  BY DEF Decisions, AtWait, NoStaleWakeup
<1>6. NoStaleWakeup'
  BY DEF NoStaleWakeup
<1>7. NoContractViolation'
  BY DEF NoContractViolation
<1>8. TimeoutKeepsValue'
  BY DEF TimeoutKeepsValue
<1> QED
  BY <1>1, <1>2, <1>3, <1>4, <1>5, <1>6, <1>7, <1>8

\* await_resume leaves no token of the wait behind.
LEMMA AwaitResumePreserves ==
    ASSUME IInv, AwaitResume
    PROVE  IInv'
<1> USE WaitAssumption DEF IInv, TypeOK, Postings, Waits, Threads, Terminals, promiseVars, waitVars,
           AwaitResume, Select, Idle, Taking, Goes, Stops, TokenWait, Winners, Before
<1>1. TypeOK'
  OBVIOUS
<1>2. AtWait'
  BY DEF AtWait
<1>3. Ownership'
  BY DEF Ownership
<1>4. Posters'
  BY DEF Posters, Relies
<1>5. Decisions'
  BY DEF Decisions
<1>6. NoStaleWakeup'
  BY DEF NoStaleWakeup
<1>7. NoContractViolation'
  BY DEF NoContractViolation
<1>8. TimeoutKeepsValue'
  BY DEF TimeoutKeepsValue
<1> QED
  BY <1>1, <1>2, <1>3, <1>4, <1>5, <1>6, <1>7, <1>8

\* A timed-out wait returns what was decided and withdraws from the promise.
LEMMA SettleTimeoutPreserves ==
    ASSUME IInv, SettleTimeout
    PROVE  IInv'
<1> USE WaitAssumption DEF IInv, TypeOK, Postings, Waits, Threads, Terminals, promiseVars, waitVars,
           SettleTimeout, Select, Idle, Taking, Goes, Stops, TokenWait, Winners, Before
<1>1. TypeOK'
  OBVIOUS
<1>2. AtWait'
  BY DEF AtWait
<1>3. Ownership'
  BY DEF Ownership
<1>4. Posters'
  BY DEF Posters, Relies
<1>5. Decisions'
  BY DEF Decisions
<1>6. NoStaleWakeup'
  BY DEF NoStaleWakeup
<1>7. NoContractViolation'
  BY DEF NoContractViolation
<1>8. TimeoutKeepsValue'
  BY DEF TimeoutKeepsValue, AtWait
<1> QED
  BY <1>1, <1>2, <1>3, <1>4, <1>5, <1>6, <1>7, <1>8

\* A ready wait finds the promise complete and its value not consumed.
LEMMA SettleReadyPreserves ==
    ASSUME IInv, SettleReady
    PROVE  IInv'
<1> USE WaitAssumption DEF IInv, TypeOK, Postings, Waits, Threads, Terminals, promiseVars, waitVars,
           SettleReady, Select, Idle, Taking, Goes, Stops, TokenWait, Winners, Before
<1>1. TypeOK'
  OBVIOUS
<1>2. AtWait'
  BY DEF AtWait
<1>3. Ownership'
  BY DEF Ownership, AtWait, Decisions
<1>4. Posters'
  BY DEF Posters, Relies
<1>5. Decisions'
  BY DEF Decisions, AtWait
<1>6. NoStaleWakeup'
  BY DEF NoStaleWakeup
<1>7. NoContractViolation'
  BY DEF AtWait, Ownership, Posters, Relies, Decisions, NoStaleWakeup, NoContractViolation, TimeoutKeepsValue
<1>8. TimeoutKeepsValue'
  BY DEF TimeoutKeepsValue, AtWait
<1> QED
  BY <1>1, <1>2, <1>3, <1>4, <1>5, <1>6, <1>7, <1>8

\* The timer queue posts a timeout token behind its deadline only.
LEMMA PopTimerPreserves ==
    ASSUME IInv, PopTimer
    PROVE  IInv'
<1> USE WaitAssumption DEF IInv, TypeOK, Postings, Waits, Threads, Terminals, promiseVars, waitVars,
           PopTimer, Select, Idle, Taking, Goes, Stops, TokenWait, Winners, Before
<1>1. TypeOK'
  OBVIOUS
<1>2. AtWait'
  BY DEF AtWait
<1>3. Ownership'
  BY DEF Ownership
<1>4. Posters'
  <2>1. Runner \in Threads /\ Relies(posting[Runner])'
    BY DEF Relies, AtWait, Ownership
  <2>2. \A u \in Threads \ {Runner} : posting'[u] = posting[u]
    OBVIOUS
  <2> QED
    BY <2>1, <2>2, OthersRely
<1>5. Decisions'
  BY DEF Decisions
<1>6. NoStaleWakeup'
  BY DEF NoStaleWakeup
<1>7. NoContractViolation'
  BY DEF NoContractViolation
<1>8. TimeoutKeepsValue'
  BY DEF TimeoutKeepsValue
<1> QED
  BY <1>1, <1>2, <1>3, <1>4, <1>5, <1>6, <1>7, <1>8

\* The clock makes no wait decided.
LEMMA DeadlinePassesPreserves ==
    ASSUME IInv, DeadlinePasses
    PROVE  IInv'
<1> USE WaitAssumption DEF IInv, TypeOK, Postings, Waits, Threads, Terminals, promiseVars, waitVars,
           DeadlinePasses, Select, Idle, Taking, Goes, Stops, TokenWait, Winners, Before
<1>1. TypeOK'
  OBVIOUS
<1>2. AtWait'
  BY DEF AtWait
<1>3. Ownership'
  BY DEF Ownership
<1>4. Posters'
  BY DEF Posters, Relies
<1>5. Decisions'
  BY DEF Decisions
<1>6. NoStaleWakeup'
  BY DEF NoStaleWakeup
<1>7. NoContractViolation'
  BY DEF NoContractViolation
<1>8. TimeoutKeepsValue'
  BY DEF TimeoutKeepsValue
<1> QED
  BY <1>1, <1>2, <1>3, <1>4, <1>5, <1>6, <1>7, <1>8

\* Completing a pending promise hands the registered wait to one thread.
LEMMA CompletePreserves ==
    ASSUME IInv, NEW s \in Setters, Complete(s)
    PROVE  IInv'
<1> USE WaitAssumption DEF IInv, TypeOK, waitVars, TokenWait
<1>1. s \in Threads
  BY DEF Threads
<1>2. \A u \in Threads : posting[u].step # "idle" => posting[u].token[1] = "timeout"
  BY DEF Posters, Relies, Complete, Postings
<1>3. /\ posting' \in [Threads -> Postings]
      /\ posting'[s].step # "idle" =>
            posting'[s].step = "take" /\ posting'[s].token = <<"ready", wait>>
                                      /\ posting'[s].as = "ready"
      /\ posting'[s].step \in {"idle", "take"}
      /\ \A u \in Threads \ {s} : posting'[u] = posting[u]
  <2>1. CASE waiters = {}
    BY <1>1, <2>1, IdleType DEF Complete
  <2>2. CASE waiters # {}
    <3>1. (CHOOSE w \in waiters : TRUE) = wait /\ wait \in Waits
      BY <2>2 DEF Ownership
    <3>2. posting' = [posting EXCEPT ![s] = Taking("ready", wait)]
      BY <2>2, <3>1 DEF Complete
    <3> QED
      BY <1>1, <3>1, <3>2, TakingType
  <2> QED
    BY <2>1, <2>2
<1>4. posting'[s].step # "idle" => wait \in Waits /\ pc \in {"suspended", "resume", "settle"}
  BY <1>1, IdleType DEF Ownership, Complete
<1>5. Winners' = Winners /\ \A u \in Winners : TokenWait(u)' = TokenWait(u)
  BY <1>1, <1>3, IdleType DEF Winners, Complete
<1>6. TypeOK'
  BY <1>3 DEF Complete
<1>7. AtWait'
  BY DEF AtWait, Complete
<1>8. Ownership'
  BY DEF Ownership, Complete, Before
<1>9. Posters'
  <2> SUFFICES ASSUME NEW u \in Threads PROVE Relies(posting[u])'
    BY DEF Posters
  <2>1. CASE u = s
    BY <1>3, <1>4, <2>1 DEF Relies, Complete, Before, Terminals
  <2>2. CASE u # s
    BY <1>2, <1>3, <2>2 DEF Posters, Relies, Complete
  <2> QED
    BY <2>1, <2>2
<1>10. Decisions'
  BY <1>5 DEF Decisions, Complete, Terminals
<1>11. NoStaleWakeup'
  BY <1>5 DEF NoStaleWakeup, Complete
<1> QED
  BY <1>6, <1>7, <1>8, <1>9, <1>10, <1>11 DEF NoContractViolation, TimeoutKeepsValue, Complete

\* active_.exchange lets at most one thread past it per token.
LEMMA TakeTokenPreserves ==
    ASSUME IInv, NEW t \in Threads, TakeToken(t)
    PROVE  IInv'
<1> USE WaitAssumption DEF IInv, TypeOK, promiseVars, TokenWait
<1>1. /\ posting' \in [Threads -> Postings]
      /\ posting'[t].step \in {"idle", "clock", "select"}
      /\ posting'[t].step # "idle" => /\ posting'[t].token = posting[t].token
                                      /\ posting'[t].as = posting[t].as
      /\ posting'[t].step = "select" => \/ posting[t].as = "timeout"
                                        \/ TokenWait(t) \notin timed
      /\ posting'[t].step = "clock" => posting[t].as # "timeout" /\ TokenWait(t) \in timed
      /\ \A u \in Threads \ {t} : posting'[u] = posting[u]
  <2>1. CASE Stops(t)
    BY <2>1, StopsThere
  <2>2. CASE Goes(t, "select") /\ (posting[t].as = "timeout" \/ TokenWait(t) \notin timed)
    BY <2>2, GoesOn
  <2>3. CASE Goes(t, "clock") /\ posting[t].as # "timeout" /\ TokenWait(t) \in timed
    BY <2>3, GoesOn
  <2> QED
    BY <2>1, <2>2, <2>3 DEF TakeToken
<1>2. tokens' \subseteq tokens
  BY DEF TakeToken
<1>3. Winners' = Winners /\ \A u \in Winners : TokenWait(u)' = TokenWait(u)
  BY <1>1 DEF TakeToken, Winners
<1>4. TypeOK'
  BY <1>1, <1>2 DEF TakeToken
<1>5. AtWait'
  BY DEF AtWait, TakeToken
<1>6. Ownership'
  BY <1>2 DEF Ownership, TakeToken
<1>7. Posters'
  <2>1. posting[t].step # "idle" /\ posting[t].as \in {"ready", "timeout"}
    BY DEF TakeToken, Postings
  <2>2. Relies(posting[t])
    BY DEF Posters
  <2>3. overdue \subseteq timed
    BY DEF Ownership
  <2>4. Relies(posting[t])'
    BY <1>1, <2>1, <2>2, <2>3 DEF Relies, TakeToken
  <2> QED
    BY <1>1, <2>4, OthersRely DEF TakeToken
<1>8. Decisions' /\ NoStaleWakeup'
  BY <1>3 DEF Decisions, NoStaleWakeup, TakeToken
<1> QED
  BY <1>4, <1>5, <1>6, <1>7, <1>8 DEF NoContractViolation, TimeoutKeepsValue, TakeToken

\* before_post reads the clock after the promise was completed.
LEMMA ReadClockPreserves ==
    ASSUME IInv, NEW t \in Threads, ReadClock(t)
    PROVE  IInv'
<1> USE DEF IInv, TypeOK, promiseVars, waitVars, TokenWait
<1>1. /\ posting' \in [Threads -> Postings]
      /\ posting'[t].step = "select"
      /\ posting'[t].token = posting[t].token
      /\ posting'[t].as = IF TokenWait(t) \in late THEN "timeout" ELSE "ready"
      /\ \A u \in Threads \ {t} : posting'[u] = posting[u]
  BY DEF ReadClock, Postings
<1>2. posting[t].token[1] = "ready" /\ TokenWait(t) \in timed
  BY DEF Posters, Relies, ReadClock
<1>3. Winners' = Winners /\ \A u \in Winners : TokenWait(u)' = TokenWait(u)
  BY <1>1 DEF Winners, ReadClock
<1>4. TypeOK'
  BY <1>1 DEF ReadClock
<1>5. AtWait' /\ Ownership'
  BY DEF AtWait, Ownership, ReadClock
<1>6. Posters'
  <2>1. Relies(posting[t]) /\ overdue \subseteq late
    BY DEF Posters, Ownership
  <2>2. Relies(posting[t])'
    BY <1>1, <1>2, <2>1 DEF Relies, ReadClock
  <2> QED
    BY <1>1, <2>2, OthersRely DEF ReadClock
<1>7. Decisions' /\ NoStaleWakeup'
  BY <1>3 DEF Decisions, NoStaleWakeup, ReadClock
<1> QED
  BY <1>4, <1>5, <1>6, <1>7 DEF NoContractViolation, TimeoutKeepsValue, ReadClock

\* The compare-and-swap on `selected` has one winner, which wakes the current wait.
LEMMA ArbitratePreserves ==
    ASSUME IInv, NEW t \in Threads, Arbitrate(t)
    PROVE  IInv'
<1> USE WaitAssumption DEF IInv, TypeOK, promiseVars, TokenWait
<1>1. /\ TokenWait(t) \in Waits
      /\ posting[t].as \in {"ready", "timeout"}
      /\ posting[t].step # "idle"
  BY DEF Arbitrate, Posters, Relies, Postings
<1>2. CASE selected[TokenWait(t)] = "none"
  <2>1. /\ posting' \in [Threads -> Postings]
        /\ posting'[t].step = "cancel"
        /\ posting'[t].token = posting[t].token
        /\ posting'[t].as = posting[t].as
        /\ \A u \in Threads \ {t} : posting'[u] = posting[u]
    BY <1>2, GoesOn DEF Arbitrate
  <2>2. selected' = [selected EXCEPT ![TokenWait(t)] = posting[t].as]
    BY <1>2 DEF Arbitrate, Select
  <2>3. wait = TokenWait(t) /\ pc = "suspended"
    <3>1. TokenWait(t) <= wait /\ (TokenWait(t) = wait => pc \notin Before)
      BY <1>1 DEF Posters, Relies
    <3>2. ~(TokenWait(t) < wait) /\ (TokenWait(t) = wait => pc # "running")
      BY <1>1, <1>2 DEF AtWait
    <3>3. TokenWait(t) = wait
      BY <1>1, <3>1, <3>2 DEF Waits
    <3> QED
      BY <1>2, <3>1, <3>2, <3>3 DEF AtWait, Before
  <2>4. queued # 1 /\ Winners = {}
    BY <1>2, <2>3 DEF Decisions
  <2>5. Winners' = {t}
    BY <2>1, <2>4 DEF Winners
  <2>6. TypeOK'
    BY <1>1, <2>1, <2>2 DEF Arbitrate
  <2>7. AtWait'
    <3>1. selected'[wait] # "none" /\ \A w \in Waits \ {wait} : selected'[w] = selected[w]
      BY <1>1, <2>2, <2>3
    <3> QED
      BY <3>1, <2>3 DEF AtWait, Arbitrate, Before, Waits
  <2>8. Ownership'
    BY DEF Ownership, Arbitrate
  <2>9. Posters'
    <3>1. Relies(posting[t])
      BY DEF Posters
    <3>2. Relies(posting[t])'
      BY <1>1, <2>1, <3>1 DEF Relies, Arbitrate
    <3> QED
      BY <1>1, <2>1, <3>2, OthersRely DEF Arbitrate
  <2>10. Decisions'
    <3>1. /\ posting[t].as = "ready" => terminal # "Pending" /\ wait \notin overdue
          /\ posting[t].as = "timeout" => wait \in late \cap timed
      BY <2>3 DEF Posters, Relies, Arbitrate
    <3>2. selected'[wait] = posting[t].as /\ \A w \in Waits \ {wait} : selected'[w] = selected[w]
      BY <1>1, <2>2, <2>3
    <3>3. result[wait] = "none"
      BY <1>1, <2>3 DEF AtWait
    <3> QED
      BY <1>1, <2>3, <2>5, <3>1, <3>2, <3>3 DEF Decisions, Arbitrate
  <2>11. NoStaleWakeup'
    BY <2>1, <2>3, <2>4, <2>5 DEF NoStaleWakeup, Arbitrate
  <2> QED
    BY <2>6, <2>7, <2>8, <2>9, <2>10, <2>11 DEF NoContractViolation, TimeoutKeepsValue, Arbitrate
<1>3. CASE selected[TokenWait(t)] # "none"
  <2>1. /\ posting' \in [Threads -> Postings]
        /\ posting'[t].step = "idle"
        /\ \A u \in Threads \ {t} : posting'[u] = posting[u]
    BY <1>3, StopsThere DEF Arbitrate
  <2>2. selected' = selected
    BY <1>1, <1>3 DEF Arbitrate, Select
  <2>3. Winners' = Winners /\ \A u \in Winners : TokenWait(u)' = TokenWait(u)
    BY <2>1 DEF Winners, Arbitrate
  <2>4. TypeOK'
    BY <2>1, <2>2 DEF Arbitrate
  <2>5. AtWait' /\ Ownership'
    BY <2>2 DEF AtWait, Ownership, Arbitrate
  <2>6. Posters'
    <3>1. Relies(posting[t])
      BY DEF Posters
    <3>2. Relies(posting[t])'
      BY <2>1, <3>1 DEF Relies, Arbitrate
    <3> QED
      BY <2>1, <3>2, OthersRely DEF Arbitrate
  <2>7. Decisions' /\ NoStaleWakeup'
    BY <2>2, <2>3 DEF Decisions, NoStaleWakeup, Arbitrate
  <2> QED
    BY <2>4, <2>5, <2>6, <2>7 DEF NoContractViolation, TimeoutKeepsValue, Arbitrate
<1> QED
  BY <1>2, <1>3

\* The winner deactivates the other token.
LEMMA CancelOtherPreserves ==
    ASSUME IInv, NEW t \in Threads, CancelOther(t)
    PROVE  IInv'
<1> USE DEF IInv, TypeOK, promiseVars, TokenWait
<1>1. /\ posting' \in [Threads -> Postings]
      /\ posting'[t].step = "enqueue"
      /\ posting'[t].token = posting[t].token
      /\ posting'[t].as = posting[t].as
      /\ \A u \in Threads \ {t} : posting'[u] = posting[u]
  BY GoesOn DEF CancelOther
<1>2. Winners' = Winners /\ \A u \in Winners : TokenWait(u)' = TokenWait(u)
  BY <1>1 DEF Winners, CancelOther
<1>3. tokens' \subseteq tokens
  BY DEF CancelOther
<1>4. TypeOK'
  BY <1>1, <1>3 DEF CancelOther
<1>5. AtWait' /\ Ownership'
  BY <1>3 DEF AtWait, Ownership, CancelOther
<1>6. Posters'
  <2>1. Relies(posting[t])
    BY DEF Posters
  <2>2. Relies(posting[t])'
    BY <1>1, <2>1 DEF Relies, CancelOther
  <2> QED
    BY <1>1, <2>2, OthersRely DEF CancelOther
<1>7. Decisions' /\ NoStaleWakeup'
  BY <1>2 DEF Decisions, NoStaleWakeup, CancelOther
<1> QED
  BY <1>4, <1>5, <1>6, <1>7 DEF NoContractViolation, TimeoutKeepsValue, CancelOther

\* The only winner puts the frame on the ready queue once.
LEMMA EnqueuePreserves ==
    ASSUME IInv, NEW t \in Threads, Enqueue(t)
    PROVE  IInv'
<1> USE DEF IInv, TypeOK, promiseVars, waitVars, TokenWait
<1>1. /\ posting' \in [Threads -> Postings]
      /\ posting'[t].step = "idle"
      /\ \A u \in Threads \ {t} : posting'[u] = posting[u]
  BY StopsThere DEF Enqueue
<1>2. t \in Winners
  BY DEF Enqueue, Winners
<1>3. queued = 0 /\ pc = "suspended" /\ Winners = {t}
  BY <1>2 DEF NoStaleWakeup
<1>4. Winners' = {} /\ queued' = 1
  BY <1>1, <1>3 DEF Winners, Enqueue
<1>5. TypeOK'
  BY <1>1, <1>4 DEF Enqueue
<1>6. AtWait' /\ Ownership'
  BY DEF AtWait, Ownership, Enqueue
<1>7. Posters'
  <2>1. Relies(posting[t])
    BY DEF Posters
  <2>2. Relies(posting[t])'
    BY <1>1, <2>1 DEF Relies, Enqueue
  <2> QED
    BY <1>1, <2>2, OthersRely DEF Enqueue
<1>8. Decisions'
  BY <1>2, <1>3, <1>4 DEF Decisions, Enqueue
<1>9. NoStaleWakeup'
  BY <1>3, <1>4 DEF NoStaleWakeup, Enqueue
<1> QED
  BY <1>5, <1>6, <1>7, <1>8, <1>9 DEF NoContractViolation, TimeoutKeepsValue, Enqueue

\* Every step of the coroutine, the scheduler, the clock and the setters preserves the
\* invariant.
LEMMA NextIInv == IInv /\ [Next]_vars => IInv'
<1> SUFFICES ASSUME IInv, [Next]_vars PROVE IInv'
  OBVIOUS
<1>1. CASE BeginWait
  BY <1>1, BeginWaitPreserves
<1>2. CASE ReadyDeadline
  BY <1>2, ReadyDeadlinePreserves
<1>3. CASE SuspendDeadline
  BY <1>3, SuspendDeadlinePreserves
<1>4. CASE MakeTokens
  BY <1>4, MakeTokensPreserves
<1>5. CASE Register
  BY <1>5, RegisterPreserves
<1>6. CASE ResumeFrame
  BY <1>6, ResumeFramePreserves
<1>7. CASE AwaitResume
  BY <1>7, AwaitResumePreserves
<1>8. CASE SettleTimeout
  BY <1>8, SettleTimeoutPreserves
<1>9. CASE SettleReady
  BY <1>9, SettleReadyPreserves
<1>10. CASE PopTimer
  BY <1>10, PopTimerPreserves
<1>11. CASE \E t \in Threads : Post(t)
  BY <1>11, TakeTokenPreserves, ReadClockPreserves, ArbitratePreserves,
     CancelOtherPreserves, EnqueuePreserves DEF Post
<1>12. CASE \E s \in Setters : Complete(s)
  BY <1>12, CompletePreserves
<1>13. CASE DeadlinePasses
  BY <1>13, DeadlinePassesPreserves
<1>14. CASE UNCHANGED vars
  <2> USE <1>14 DEF vars, promiseVars, waitVars, IInv, TokenWait
  <2>1. TypeOK'
    BY DEF TypeOK
  <2>2. AtWait' /\ Ownership'
    BY DEF AtWait, Ownership
  <2>3. Posters'
    BY DEF Posters, Relies
  <2>4. Winners' = Winners
    BY DEF Winners
  <2>5. Decisions' /\ NoStaleWakeup'
    BY <2>4 DEF Decisions, NoStaleWakeup
  <2> QED
    BY <2>1, <2>2, <2>3, <2>5 DEF NoContractViolation, TimeoutKeepsValue
<1> QED
  BY <1>1, <1>2, <1>3, <1>4, <1>5, <1>6, <1>7, <1>8, <1>9, <1>10, <1>11, <1>12, <1>13, <1>14 DEF Next, Coroutine, Done

------------------------------------------------------------------------------
(* The theorems                                                             *)

\* The inductive invariant holds of every behaviour.
THEOREM Invariance == Spec => []IInv
<1>1. Init => IInv
  BY InitIInv
<1>2. IInv /\ [Next]_vars => IInv'
  BY NextIInv
<1> QED
  BY <1>1, <1>2, PTL DEF Spec

\* The state of the promise, the tokens, the timer queue and the threads keeps its type.
THEOREM TypeCorrect == Spec => []TypeOK
<1>1. IInv => TypeOK
  BY DEF IInv
<1> QED
  BY <1>1, Invariance, PTL

\* However many threads complete the promise and whenever the timer fires, a coroutine is
\* woken once per wait, and only while it is suspended in that wait (WaiterToken::post and
\* timed_wait_state).
THEOREM WokenOnce == Spec => []NoStaleWakeup
<1>1. IInv => NoStaleWakeup
  BY DEF IInv
<1> QED
  BY <1>1, Invariance, PTL

\* A single consumer that waits again after timeouts never runs into
\* async_contract_violation (wait_or_post and take_value).
THEOREM ContractKept == Spec => []NoContractViolation
<1>1. IInv => NoContractViolation
  BY DEF IInv
<1> QED
  BY <1>1, Invariance, PTL

\* A wait that times out never consumes the value (timeout_awaitable::await_resume).
THEOREM ValueKept == Spec => []TimeoutKeepsValue
<1>1. IInv => TimeoutKeepsValue
  BY DEF IInv
<1> QED
  BY <1>1, Invariance, PTL

\* A wait whose deadline passed while it was suspended times out when the promise is
\* completed afterwards: before_post reads the clock later than try_set_value.
THEOREM LateIsTimeout == Spec => []LateCompletionTimesOut
<1>1. IInv => LateCompletionTimesOut
  BY DEF IInv, TypeOK, Decisions, LateCompletionTimesOut
<1> QED
  BY <1>1, Invariance, PTL

------------------------------------------------------------------------------
(* The refinement: `selected` is the abstract outcome                       *)

\* A step that decides wait w on a truthful ground is a step of the abstract wait.
LEMMA DecideMaps ==
    ASSUME NEW w \in Waits, NEW x \in {"ready", "timeout"},
           selected[w] = "none",
           x = "ready" => terminal # "Pending",
           x = "timeout" => w \in late,
           Select(w, x), terminal' = terminal, late' = late, result' = result
    PROVE  Abstract!Next
<1>1. Abstract!Decide(w, x)
  BY DEF Abstract!Decide, Select
<1> QED
  BY <1>1 DEF Abstract!Next

\* A step that leaves the promise's state, the deadlines, the outcomes and the results
\* alone stutters.
LEMMA StutterMaps ==
    ASSUME terminal' = terminal, late' = late, selected' = selected, result' = result
    PROVE  UNCHANGED Abstract!vars
BY DEF Abstract!vars

\* Returning from a wait what it was decided as is a step of the abstract wait.
LEMMA ReturnMaps ==
    ASSUME NEW w \in Waits,
           selected[w] # "none", result[w] = "none",
           result' = [result EXCEPT ![w] = selected[w]],
           terminal' = terminal, late' = late, selected' = selected
    PROVE  Abstract!Next
<1>1. Abstract!Return(w)
  BY DEF Abstract!Return
<1> QED
  BY <1>1 DEF Abstract!Next

\* Every step of the tokens, the timer queue and the promise is a step of the abstract wait
\* or a stutter.
LEMMA StepMaps == IInv /\ [Next]_vars => [Abstract!Next]_(Abstract!vars)
<1> SUFFICES ASSUME IInv, [Next]_vars
             PROVE  Abstract!Next \/ UNCHANGED Abstract!vars
  OBVIOUS
<1> USE DEF promiseVars, waitVars
<1>0. TypeOK /\ AtWait
  BY DEF IInv
<1>1. CASE BeginWait
  <2>1. CASE terminal # "Pending"
    <3>1. wait + 1 \in Waits
      BY <1>0, <1>1, WaitAssumption DEF BeginWait, TypeOK, Waits
    <3>2. selected[wait + 1] = "none"
      BY <1>0, <3>1 DEF AtWait, TypeOK, Waits
    <3> QED
      BY <1>1, <2>1, <3>1, <3>2, DecideMaps DEF BeginWait
  <2>2. CASE terminal = "Pending"
    BY <1>1, <2>2, StutterMaps DEF BeginWait
  <2> QED
    BY <2>1, <2>2
<1>2. CASE ReadyDeadline \/ SuspendDeadline
  <2>1. wait \in Waits /\ selected[wait] = "none"
    BY <1>0, <1>2 DEF AtWait, Before, ReadyDeadline, SuspendDeadline
  <2>2. CASE wait \in timed /\ wait \in late
    BY <1>2, <2>1, <2>2, DecideMaps DEF ReadyDeadline, SuspendDeadline
  <2>3. CASE ~(wait \in timed /\ wait \in late)
    BY <1>2, <2>3, StutterMaps DEF ReadyDeadline, SuspendDeadline
  <2> QED
    BY <2>2, <2>3
<1>3. CASE MakeTokens
  <2>1. wait \in Waits /\ selected[wait] = "none"
    BY <1>0, <1>3 DEF AtWait, Before, MakeTokens
  <2>2. CASE wait \in timed /\ terminal # "Pending"
    BY <1>3, <2>1, <2>2, DecideMaps DEF MakeTokens
  <2>3. CASE ~(wait \in timed /\ terminal # "Pending")
    BY <1>3, <2>3, StutterMaps DEF MakeTokens
  <2> QED
    BY <2>2, <2>3
<1>4. CASE Register \/ ResumeFrame \/ AwaitResume \/ PopTimer
  BY <1>4, StutterMaps DEF Register, ResumeFrame, AwaitResume, PopTimer
<1>5. CASE SettleTimeout \/ SettleReady
  <2>1. wait \in Waits /\ selected[wait] # "none" /\ result[wait] = "none"
    BY <1>0, <1>5 DEF AtWait, TypeOK, SettleTimeout, SettleReady
  <2>2. CASE SettleTimeout
    BY <2>1, <2>2, ReturnMaps DEF SettleTimeout
  <2>3. CASE SettleReady
    <3>1. selected[wait] = "ready"
      BY <1>0, <2>1, <2>3 DEF SettleReady, TypeOK, IInv, Decisions
    <3> QED
      BY <2>1, <2>3, <3>1, ReturnMaps DEF SettleReady
  <2> QED
    BY <1>5, <2>2, <2>3
<1>6. ASSUME NEW t \in Threads, Arbitrate(t)
      PROVE  Abstract!Next \/ UNCHANGED Abstract!vars
  <2>1. /\ TokenWait(t) \in Waits
        /\ posting[t].as \in {"ready", "timeout"}
        /\ posting[t].as = "ready" => terminal # "Pending"
        /\ posting[t].as = "timeout" => TokenWait(t) \in late
    <3>1. posting[t] \in Postings /\ Relies(posting[t])
      BY DEF IInv, TypeOK, Posters
    <3> QED
      BY <1>6, <3>1 DEF Relies, Postings, Arbitrate, TokenWait
  <2>2. CASE selected[TokenWait(t)] = "none"
    BY <1>6, <2>1, <2>2, DecideMaps DEF Arbitrate
  <2>3. CASE selected[TokenWait(t)] # "none"
    <3>1. selected' = selected
      BY <1>0, <1>6, <2>1, <2>3 DEF Arbitrate, Select, TypeOK
    <3> QED
      BY <1>6, <3>1, StutterMaps DEF Arbitrate
  <2> QED
    BY <2>2, <2>3
<1>7. ASSUME NEW t \in Threads, TakeToken(t) \/ ReadClock(t) \/ CancelOther(t) \/ Enqueue(t)
      PROVE  UNCHANGED Abstract!vars
  BY <1>7, StutterMaps DEF TakeToken, ReadClock, CancelOther, Enqueue
<1>8. ASSUME NEW s \in Setters, Complete(s)
      PROVE  Abstract!Next
  <2>1. (terminal # "Pending")' = TRUE
    BY <1>8 DEF Complete, Terminals
  <2>2. Abstract!BecomeAvailable
    BY <1>8, <2>1 DEF Abstract!BecomeAvailable, Complete
  <2> QED
    BY <2>2 DEF Abstract!Next
<1>9. CASE DeadlinePasses
  <2>1. PICK w \in Waits : late' = late \cup {w}
    BY <1>9 DEF DeadlinePasses
  <2>2. Abstract!DeadlinePasses(w)
    BY <1>9, <2>1 DEF Abstract!DeadlinePasses, DeadlinePasses
  <2> QED
    BY <2>2 DEF Abstract!Next
<1>10. CASE UNCHANGED vars
  BY <1>10, StutterMaps DEF vars
<1> QED
  BY <1>1, <1>2, <1>3, <1>4, <1>5, <1>6, <1>7, <1>8, <1>9, <1>10
  DEF Next, Coroutine, Post, Done

\* The tokens, the timer and the promise implement a wait that is decided once, truthfully,
\* and returns what was decided.
THEOREM Refinement == Spec => ImplementsOneShotWait
<1>1. Init => Abstract!Init
  BY DEF Init, Abstract!Init
<1>2. IInv /\ [Next]_vars => [Abstract!Next]_(Abstract!vars)
  BY StepMaps
<1> QED
  BY <1>1, <1>2, Invariance, PTL DEF Spec, ImplementsOneShotWait, Abstract!Spec
==============================================================================
