--------------------------- MODULE SchedulerCore -----------------------------
(***************************************************************************)
(* AsyncSchedulerCore with the coroutine frames it keeps: cases, the helper *)
(* coroutines they await (with or without a timeout), a promise that moves   *)
(* from one case into a helper or to a worker, and the case that awaits it.  *)
(*                                                                         *)
(* A frame stands for its address: it lives while something refers to it    *)
(* and its address may be used again by a later helper.  `core` holds what   *)
(* the core's mutex protects, and the frames' atomic `canceled`.             *)
(***************************************************************************)
EXTENDS Naturals, Sequences, SequencesExt, FiniteSetsExt

CONSTANTS
    Cases,      \* the frames of the cases, which own themselves and their helpers
    Helpers,    \* addresses of helper coroutines (async_test<T> objects)
    Producer,   \* the case that makes the promise
    Consumer,   \* the case that holds the future
    Sleepers    \* the frames that may sleep

ASSUME CoreAssumption == /\ Cases \cap Helpers = {}
                         /\ {Producer, Consumer} \subseteq Cases /\ Producer # Consumer

Frames == Cases \cup Helpers

VARIABLES
    core,       \* owner (frames_, owners_), children, parents, blocked, tokens, ready,
                \* and the canceled frames
    life,       \* none, created, suspended, running, done
    obj,        \* who holds a frame's async_test object: a frame, the runner's "task", none
    cont,       \* continuation_token of a helper: the frame it resumes
    waits,      \* what a suspended frame awaits: a helper, "promise" or "none"
    timedOut,   \* the frames whose wait was decided as a timeout
    wrapped,    \* helpers in a timeout_awaitable with inner_wait_started_
    at,         \* the promise object: who holds it, and whether as a parameter
    complete,   \* the promise is terminal
    waiter,     \* the frame registered with the promise
    cur,        \* the frame the runner resumes
    posting,    \* the frame a worker is about to post
    ended,      \* the cases whose owner was cancelled
    locked,     \* frames whose last reference was dropped under the core's mutex
    stuck       \* the runner's thread locks a mutex it holds

waitVars == <<cont, waits, timedOut, wrapped>>
promiseVars == <<at, complete, waiter>>
vars == <<core, life, obj, waitVars, promiseVars, cur, posting, ended, locked, stuck>>

Init ==
    /\ core = [owner |-> [f \in Frames |-> "none"], children |-> [f \in Frames |-> <<>>],
               parents |-> [f \in Frames |-> <<>>], blocked |-> {}, tokens |-> {},
               ready |-> <<>>, canceled |-> {}]
    /\ life = [f \in Frames |-> "none"]
    /\ obj = [f \in Frames |-> "none"]
    /\ cont = [h \in Helpers |-> "none"]
    /\ waits = [f \in Frames |-> "none"]
    /\ timedOut = {} /\ wrapped = {}
    /\ at = [holder |-> Producer, param |-> FALSE]
    /\ complete = FALSE /\ waiter = "none"
    /\ cur = "none" /\ posting = "none"
    /\ ended = {} /\ locked = {} /\ stuck = FALSE

------------------------------------------------------------------------------
(* The core's operations                                                    *)

\* register_frame
RegisterFrame(k, f, c) == [k EXCEPT !.owner[f] = c]

\* post(FramePtr): only a registered frame that is neither canceled nor done.
PostFrame(k, f) ==
    LET k1 == [k EXCEPT !.blocked = @ \ {f}]
    IN IF k.owner[f] = "none" \/ f \in k.canceled \/ life[f] = "done" THEN k1
       ELSE [k1 EXCEPT !.ready = Append(@, f)]

\* make_waiter, for one token of each kind
MakeWaiters(k, f, Kinds) ==
    IF k.owner[f] = "none" \/ f \in k.canceled THEN k
    ELSE [k EXCEPT !.tokens = @ \cup ({f} \X Kinds)]

\* block
Block(k, f) == IF k.owner[f] = "none" THEN k ELSE [k EXCEPT !.blocked = @ \cup {f}]

\* yield
YieldFrame(k, f) ==
    IF k.owner[f] = "none" \/ f \in k.canceled \/ life[f] = "done" THEN k
    ELSE [k EXCEPT !.blocked = @ \cup {f}, !.ready = Append(@, f)]

\* Mutant: a helper is owned by the frame that awaits it.
AttachChildToFrame(k, h, p) ==
    IF k.owner[p] = "none" THEN k
    ELSE [k EXCEPT
            !.owner[h] = p,
            !.children[p] = Append(@, [child |-> h, link |-> Len(k.parents[h]) + 1]),
            !.parents[h] = Append(@, [parent |-> p, index |-> Len(k.children[p]) + 1])]

\* attach_child
AttachChild(k, h, p) ==
    IF k.owner[p] = "none" THEN k
    ELSE [k EXCEPT
            !.owner[h] = k.owner[p],
            !.children[p] = Append(@, [child |-> h, link |-> Len(k.parents[h]) + 1]),
            !.parents[h] = Append(@, [parent |-> p, index |-> Len(k.children[p]) + 1])]

\* Mutant: the index of the child that was moved is not brought up to date.
RemoveChildReferencesStale(k, a) ==
    LET Unlink(acc, ref) ==
          LET kids == acc.children[ref.parent]
              last == Len(kids)
          IN IF ref.index > last \/ kids[ref.index].child # a THEN acc
             ELSE [acc EXCEPT !.children[ref.parent] =
                     Front([kids EXCEPT ![ref.index] = kids[last]])]
    IN FoldLeft(Unlink, [k EXCEPT !.parents[a] = <<>>], k.parents[a])

\* remove_child_references_locked: the last child takes the place of the removed one.
RemoveChildReferences(k, a) ==
    LET Unlink(acc, ref) ==
          LET kids == acc.children[ref.parent]
              last == Len(kids)
              moved == kids[last]
              removed == [acc EXCEPT !.children[ref.parent] =
                            Front([kids EXCEPT ![ref.index] = moved])]
          IN IF ref.index > last \/ kids[ref.index].child # a THEN acc
             ELSE IF ref.index = last \/ moved.link > Len(acc.parents[moved.child]) THEN removed
             ELSE [removed EXCEPT !.parents[moved.child][moved.link].index = ref.index]
    IN FoldLeft(Unlink, [k EXCEPT !.parents[a] = <<>>], k.parents[a])

\* Mutant: the frame keeps its links.
CancelAddressLinked(k, a) ==
    LET k1 == IF k.owner[a] = "none" THEN k ELSE [k EXCEPT !.canceled = @ \cup {a}]
    IN [k1 EXCEPT !.tokens = {t \in @ : t[1] # a}, !.blocked = @ \ {a},
                  !.owner[a] = "none", !.ready = SelectSeq(@, LAMBDA f : f # a)]

\* cancel_address_locked and cancel_tokens: the frame and, first, all its children.
RECURSIVE CancelAddress(_, _)
CancelAddress(k, a) ==
    LET k1 == IF k.owner[a] = "none" THEN k ELSE [k EXCEPT !.canceled = @ \cup {a}]
        Child(acc, ref) == CancelAddress(acc, ref.child)
        k2 == FoldLeft(Child, [k1 EXCEPT !.children[a] = <<>>], k1.children[a])
        k3 == RemoveChildReferences(k2, a)
    IN [k3 EXCEPT !.tokens = {t \in @ : t[1] # a}, !.blocked = @ \ {a},
                  !.owner[a] = "none", !.ready = SelectSeq(@, LAMBDA f : f # a)]

\* Mutant: only the frames that are done.
CancelDoneFrames(k, c) ==
    FoldSet(LAMBDA a, acc : CancelAddress(acc, a), k,
            {a \in Frames : k.owner[a] = c /\ life[a] = "done"})

\* cancel_owner (the order of the addresses does not matter: a frame's tree has one owner)
CancelOwner(k, c) ==
    FoldSet(LAMBDA a, acc : CancelAddress(acc, a), k, {a \in Frames : k.owner[a] = c})

------------------------------------------------------------------------------
(* The life of frames                                                       *)

\* The strong references to a frame: frames_, ready_, the runner, a worker, its object.
Unreferenced(k, o, c, p) ==
    {f \in Frames : /\ life[f] # "none" /\ k.owner[f] = "none" /\ o[f] = "none"
                    /\ f \notin ToSet(k.ready) \cup {c, p}}

Garbage == Unreferenced(core, obj, cur, posting)

\* Destructors run to their end before the thread goes on.
Free == Garbage = {} /\ ~stuck

\* A case that has finished is completed before the next frame is resumed.
RunnerFree == Free /\ cur = "none" /\ \A c \in Cases : life[c] = "done" => c \in ended
Runs(f) == Free /\ cur = f

\* WaiterToken::post wakes frame f.
Wakes(k, f) == <<f, "ready">> \in k.tokens /\ f \notin k.canceled
NoTokens(k, f) == [k EXCEPT !.tokens = {t \in @ : t[1] # f}]

\* WaiterToken::post on the runner's thread.  The ready token of a timed wait decides for
\* the timeout if the deadline has passed (`late`); it cancels the other token.
PostToken(k, f) ==
    IF f = "none" THEN k
    ELSE IF Wakes(k, f) THEN PostFrame(NoTokens(k, f), f)
    ELSE [k EXCEPT !.tokens = @ \ {<<f, "ready">>}]
MayBeLate(f) == IF f # "none" /\ <<f, "timeout">> \in core.tokens THEN {{}, {f}} ELSE {{}}

\* ~async_test of the helpers in S, which one frame holds: a timeout_awaitable around it
\* cancels the wait (and the address) first.
CancelWrapped(k, S) == FoldSet(LAMBDA h, acc : CancelAddress(acc, h), k, S \cap wrapped)
DropObjects(k, S) ==
    LET k1 == CancelWrapped(k, S)
    IN /\ core' = [k1 EXCEPT !.canceled = @ \cup S]
       /\ obj' = [f \in Frames |-> IF f \in S THEN "none" ELSE obj[f]]
       /\ wrapped' = wrapped \ S
       /\ locked' = locked \cup Unreferenced(k1, obj, cur, posting)

Held(f) == {h \in Helpers : obj[h] = f}

------------------------------------------------------------------------------
(* The runner                                                               *)

\* add_top_level
StartCase(c) ==
    /\ RunnerFree /\ life[c] = "none" /\ c \notin ended
    /\ life' = [life EXCEPT ![c] = "created"]
    /\ obj' = [obj EXCEPT ![c] = "task"]
    /\ core' = PostFrame(RegisterFrame(core, c, c), c)
    /\ UNCHANGED <<waitVars, promiseVars, cur, posting, ended, locked, stuck>>

\* Mutant: the child of a wait that timed out goes on until its object is destroyed.
ResumeKeepsChild ==
    /\ RunnerFree /\ core.ready # <<>> /\ Head(core.ready) \notin core.canceled
    /\ LET f == Head(core.ready)
       IN /\ life[f] # "done"
          /\ cur' = f
          /\ life' = [life EXCEPT ![f] = "running"]
          /\ waits' = [waits EXCEPT ![f] = "none"]
          /\ timedOut' = timedOut \ {f}
          /\ core' = NoTokens([core EXCEPT !.ready = Tail(@), !.blocked = @ \ {f}], f)
          /\ waiter' = IF f \in timedOut /\ ~complete /\ waiter = f THEN "none" ELSE waiter
    /\ UNCHANGED <<obj, cont, wrapped, at, complete, posting, ended, locked, stuck>>

\* resume_one_ready, and await_resume of the resumed frame: a wait that timed out cancels
\* what it waited for.  A frame that is canceled, done or without an owner would be passed
\* over; QueuedOnce says that none is in the queue.
Resume ==
    /\ RunnerFree /\ core.ready # <<>> /\ Head(core.ready) \notin core.canceled
    /\ LET f == Head(core.ready)
           k == NoTokens([core EXCEPT !.ready = Tail(@), !.blocked = @ \ {f}], f)
           Lost == IF f \in timedOut THEN wrapped \cap {waits[f]} ELSE {}
       IN /\ life[f] # "done"
          /\ cur' = f
          /\ life' = [life EXCEPT ![f] = "running"]
          /\ waits' = [waits EXCEPT ![f] = "none"]
          /\ timedOut' = timedOut \ {f}
          /\ core' = CancelWrapped(k, Lost)
          /\ cont' = [h \in Helpers |-> IF h \in Lost THEN "none" ELSE cont[h]]
          /\ wrapped' = wrapped \ Lost
          /\ waiter' = IF f \in timedOut /\ ~complete /\ waiter = f THEN "none" ELSE waiter
          /\ locked' = Unreferenced(core', obj, f, posting)
    /\ UNCHANGED <<obj, at, complete, posting, ended, stuck>>

\* Mutant: the ready token stays active.
FireTimerOnly(f) ==
    /\ RunnerFree /\ <<f, "timeout">> \in core.tokens
    /\ timedOut' = timedOut \cup {f}
    /\ core' = LET k == [core EXCEPT !.tokens = @ \ {<<f, "timeout">>}]
               IN IF f \in core.canceled THEN k ELSE PostFrame(k, f)
    /\ UNCHANGED <<life, obj, cont, waits, wrapped, promiseVars, cur, posting, ended, locked,
                   stuck>>

\* post_due_timers: the timeout token of f.
FireTimer(f) ==
    /\ RunnerFree /\ <<f, "timeout">> \in core.tokens
    /\ timedOut' = timedOut \cup {f}
    /\ core' = IF f \in core.canceled THEN NoTokens(core, f) ELSE PostFrame(NoTokens(core, f), f)
    /\ UNCHANGED <<life, obj, cont, waits, wrapped, promiseVars, cur, posting, ended, locked,
                   stuck>>

\* complete (and the cancellation of a case that cannot resume): cancel_owner.
EndCase(c) ==
    /\ Free /\ cur = "none" /\ life[c] # "none" /\ c \notin ended
    /\ core' = CancelOwner(core, c)
    /\ ended' = ended \cup {c}
    /\ locked' = Unreferenced(core', obj, cur, posting)
    /\ UNCHANGED <<life, obj, waitVars, promiseVars, cur, posting, stuck>>

\* run.task.reset()
DropTask(c) ==
    /\ RunnerFree /\ c \in ended /\ obj[c] = "task"
    /\ core' = [core EXCEPT !.canceled = @ \cup {c}]
    /\ obj' = [obj EXCEPT ![c] = "none"]
    /\ UNCHANGED <<life, waitVars, promiseVars, cur, posting, ended, locked, stuck>>

------------------------------------------------------------------------------
(* A running frame                                                          *)

\* A helper coroutine is called; the promise may be moved into a parameter of it.
CreateHelper(f, h) ==
    /\ Runs(f) /\ life[h] = "none"
    /\ life' = [life EXCEPT ![h] = "created"]
    /\ obj' = [obj EXCEPT ![h] = f]
    /\ cont' = [cont EXCEPT ![h] = "none"]
    /\ \/ UNCHANGED at
       \/ at.holder = f /\ at' = [holder |-> h, param |-> TRUE]
    /\ UNCHANGED <<core, waits, timedOut, wrapped, complete, waiter, cur, posting, ended,
                   locked, stuck>>

\* Suspends f, whose scheduler state becomes k.
Suspend(f, on, k) ==
    /\ life' = [life EXCEPT ![f] = "suspended"]
    /\ waits' = [waits EXCEPT ![f] = on]
    /\ cur' = "none"
    /\ core' = k

\* co_await helper, or co_await wait_for(std::move(helper), ...): a helper is claimed once.
AwaitChild(f, h, timed) ==
    /\ Runs(f) /\ obj[h] = f /\ life[h] = "created"
    /\ LET Kinds == IF timed THEN {"ready", "timeout"} ELSE {"ready"}
       IN Suspend(f, h, PostFrame(AttachChild(MakeWaiters(core, f, Kinds), h, f), h))
    /\ cont' = [cont EXCEPT ![h] = f]
    /\ wrapped' = IF timed THEN wrapped \cup {h} ELSE wrapped
    /\ UNCHANGED <<obj, timedOut, promiseVars, posting, ended, locked, stuck>>

\* co_await future.wait(), or wait_for of it, while the promise is pending: wait_or_post.
WaitPromise(f, timed) ==
    /\ Runs(f) /\ f = Consumer /\ ~complete
    /\ LET Kinds == IF timed THEN {"ready", "timeout"} ELSE {"ready"}
       IN Suspend(f, "promise", Block(MakeWaiters(core, f, Kinds), f))
    /\ waiter' = f
    /\ UNCHANGED <<obj, cont, timedOut, wrapped, at, complete, posting, ended, locked, stuck>>

\* co_await yield()
Yield(f) ==
    /\ Runs(f)
    /\ Suspend(f, "none", YieldFrame(core, f))
    /\ UNCHANGED <<obj, cont, timedOut, wrapped, promiseVars, posting, ended, locked, stuck>>

\* co_await sleep_for(...): a wait with a timer only.
Sleep(f) ==
    /\ Runs(f) /\ f \in Sleepers
    /\ Suspend(f, "none", Block(MakeWaiters(core, f, {"timeout"}), f))
    /\ UNCHANGED <<obj, cont, timedOut, wrapped, promiseVars, posting, ended, locked, stuck>>

\* set_value and the like, and the end of the promise object: the waiter is posted.
Completes(k) ==
    /\ complete' = TRUE /\ waiter' = "none"
    /\ core' = IF complete THEN k ELSE PostToken(k, waiter)
    /\ \E L \in MayBeLate(IF complete THEN "none" ELSE waiter) : timedOut' = timedOut \cup L

SetPromise(f) ==
    /\ Runs(f) /\ at.holder = f /\ ~complete
    /\ Completes(core)
    /\ UNCHANGED <<life, obj, cont, waits, wrapped, at, cur, posting, ended, locked, stuck>>

\* The promise is moved to a worker.
GiveToWorker(f) ==
    /\ Runs(f) /\ at.holder = f
    /\ at' = [holder |-> "worker", param |-> FALSE]
    /\ UNCHANGED <<core, life, obj, waitVars, complete, waiter, cur, posting, ended, locked,
                   stuck>>

\* A helper object that is not awaited, or no longer, goes out of scope.
DropHelper(f, h) ==
    /\ Runs(f) /\ obj[h] = f
    /\ DropObjects(core, {h})
    /\ UNCHANGED <<life, cont, waits, timedOut, promiseVars, cur, posting, ended, stuck>>

\* The promise object goes out of scope: abandon.
DropPromise(f) ==
    /\ Runs(f) /\ at.holder = f /\ ~at.param
    /\ at' = [at EXCEPT !.holder = "none"]
    /\ Completes(core)
    /\ UNCHANGED <<life, obj, cont, waits, wrapped, cur, posting, ended, locked, stuck>>

\* Mutant: the continuation is not posted.
FinishSilently(f) ==
    /\ Runs(f) /\ Held(f) = {} /\ (at.holder = f => at.param)
    /\ life' = [life EXCEPT ![f] = "done"]
    /\ cur' = "none"
    /\ UNCHANGED <<core, obj, waitVars, promiseVars, posting, ended, locked, stuck>>

\* The coroutine returns or throws, its locals are gone, and final_suspend posts the
\* continuation.
Finish(f) ==
    /\ Runs(f) /\ Held(f) = {} /\ (at.holder = f => at.param)
    /\ life' = [life EXCEPT ![f] = "done"]
    /\ cur' = "none"
    /\ LET p == IF f \in Helpers THEN cont[f] ELSE "none"
       IN /\ core' = PostToken(core, p)
          /\ \E L \in MayBeLate(p) : timedOut' = timedOut \cup L
    /\ UNCHANGED <<obj, cont, waits, wrapped, promiseVars, posting, ended, locked, stuck>>

------------------------------------------------------------------------------
(* The worker, and the end of frames                                        *)

\* The worker completes (or abandons) the promise and takes the waiter's token, ...
WorkerCompletes ==
    /\ Free /\ at.holder = "worker" /\ posting = "none"
    /\ at' = [at EXCEPT !.holder = "none"]
    /\ complete' = TRUE /\ waiter' = "none"
    /\ IF ~complete /\ waiter # "none" /\ Wakes(core, waiter)
         THEN /\ posting' = waiter
              /\ core' = NoTokens(core, waiter)
              /\ \E L \in MayBeLate(waiter) : timedOut' = timedOut \cup L
         ELSE UNCHANGED <<posting, core, timedOut>>
    /\ UNCHANGED <<life, obj, cont, waits, wrapped, cur, ended, locked, stuck>>

\* ... and posts the frame, on which it held a reference.
WorkerPosts ==
    /\ Free /\ posting # "none"
    /\ core' = PostFrame(core, posting)
    /\ posting' = "none"
    /\ UNCHANGED <<life, obj, waitVars, promiseVars, cur, ended, locked, stuck>>

\* ~AsyncFrame: handle.destroy() destroys what the frame holds, the parameters of a
\* coroutine that has finished included.  Under the core's mutex it must not come back to
\* the core.
Destroy(f) ==
    /\ f \in Garbage /\ ~stuck
    /\ LET S == Held(f)
           abandons == at.holder = f /\ ~complete
           k1 == CancelWrapped(core, S)
           k2 == NoTokens([k1 EXCEPT !.canceled = (@ \cup S) \ {f}], f)
       IN IF f \in locked /\ \/ S \cap wrapped # {}
                             \/ abandons /\ waiter # "none" /\ Wakes(core, waiter)
          THEN /\ stuck' = TRUE
               /\ complete' = (complete \/ abandons)
               /\ UNCHANGED <<core, life, obj, waitVars, at, waiter, locked>>
          ELSE /\ life' = [life EXCEPT ![f] = "none"]
               /\ obj' = [g \in Frames |-> IF g \in S THEN "none" ELSE obj[g]]
               /\ waits' = [waits EXCEPT ![f] = "none"]
               /\ wrapped' = wrapped \ S
               /\ at' = IF at.holder = f THEN [at EXCEPT !.holder = "none"] ELSE at
               /\ IF abandons THEN Completes(k2)
                  ELSE /\ core' = k2
                       /\ waiter' = IF waiter = f THEN "none" ELSE waiter
                       /\ timedOut' = timedOut \ {f}
                       /\ UNCHANGED complete
               /\ locked' = (locked \cup Unreferenced(k1, obj, cur, posting)
                               \cup (IF f \in locked THEN Unreferenced(k2, obj', cur, posting)
                                     ELSE {})) \ {f}
               /\ UNCHANGED <<cont, stuck>>
    /\ UNCHANGED <<cur, posting, ended>>

\* All cases have ended, or the runner hangs.
Over == /\ stuck \/ (ended = Cases /\ \A c \in Cases : life[c] = "none")
        /\ UNCHANGED vars

Next ==
    \/ \E c \in Cases : StartCase(c) \/ EndCase(c) \/ DropTask(c)
    \/ Resume
    \/ \E f \in Frames :
        \/ FireTimer(f) \/ SetPromise(f) \/ GiveToWorker(f) \/ DropPromise(f)
        \/ Yield(f) \/ Sleep(f) \/ Finish(f) \/ Destroy(f)
        \/ \E timed \in BOOLEAN : WaitPromise(f, timed)
        \/ \E h \in Helpers : CreateHelper(f, h) \/ DropHelper(f, h)
        \/ \E h \in Helpers, timed \in BOOLEAN : AwaitChild(f, h, timed)
    \/ WorkerCompletes \/ WorkerPosts
    \/ Over

Spec == Init /\ [][Next]_vars

\* A running coroutine returns or reaches a co_await, the runner resumes what is ready and
\* completes a case that has finished, and the worker gets on.
FairSpec ==
    /\ Spec
    /\ WF_vars(Resume)
    /\ WF_vars(\E c \in Cases : life[c] = "done" /\ EndCase(c))
    /\ SF_vars(\E f \in Frames : Yield(f) \/ Finish(f))
    /\ WF_vars(\E f \in Frames : Destroy(f))
    /\ SF_vars(WorkerPosts)

------------------------------------------------------------------------------
(* Properties                                                               *)

Lives == {"none", "created", "suspended", "running", "done"}
Registered == {f \in Frames : core.owner[f] # "none"}

\* The variables have their types.
TypeOK ==
    /\ core.owner \in [Frames -> Cases \cup {"none"}]
    /\ core.blocked \subseteq Frames /\ core.canceled \subseteq Frames
    /\ core.tokens \subseteq Frames \X {"ready", "timeout"}
    /\ ToSet(core.ready) \subseteq Frames
    /\ life \in [Frames -> Lives]
    /\ obj \in [Frames -> Frames \cup {"task", "none"}]
    /\ cont \in [Helpers -> Frames \cup {"none"}]
    /\ waits \in [Frames -> Helpers \cup {"promise", "none"}]
    /\ timedOut \subseteq Frames /\ wrapped \subseteq Helpers /\ locked \subseteq Garbage
    /\ waiter \in Frames \cup {"none"} /\ complete \in BOOLEAN /\ stuck \in BOOLEAN
    /\ cur \in Frames \cup {"none"} /\ posting \in Frames \cup {"none"} /\ ended \subseteq Cases

\* children_ and parents_ point at each other through their indices, whatever was removed
\* between them: remove_child_references_locked finds the entry it looks for.
LinksAgree ==
    /\ \A p \in Frames : \A i \in DOMAIN core.children[p] :
        LET ref == core.children[p][i]
        IN /\ ref.link \in DOMAIN core.parents[ref.child]
           /\ core.parents[ref.child][ref.link] = [parent |-> p, index |-> i]
    /\ \A h \in Frames : \A j \in DOMAIN core.parents[h] :
        LET ref == core.parents[h][j]
        IN /\ ref.index \in DOMAIN core.children[ref.parent]
           /\ core.children[ref.parent][ref.index] = [child |-> h, link |-> j]

\* No map of the core names an address without a live frame, so that a coroutine that
\* gets the address later inherits neither a parent, a child, a token nor a blocked entry.
NoStaleAddress ==
    LET Named == Registered \cup core.blocked \cup {t[1] : t \in core.tokens}
                   \cup {f \in Frames : core.children[f] # <<>> \/ core.parents[f] # <<>>}
    IN /\ Named \subseteq Registered
       /\ \A f \in Registered \cup ToSet(core.ready) : life[f] # "none"

\* A frame is queued once, and only while it is registered, not canceled, and suspended or
\* not yet started: what pop_ready returns can be resumed, and the tests with which the
\* runner would pass over it never succeed.
QueuedOnce ==
    \A i, j \in DOMAIN core.ready :
        /\ core.ready[i] \in Registered \ core.canceled
        /\ life[core.ready[i]] \in {"created", "suspended"}
        /\ core.ready[i] = core.ready[j] => i = j

\* A helper runs only for a parent that is suspended on it, up to a case that has not
\* ended: a wait that timed out stops its helper and all the helpers below it.
RunsForItsParent ==
    cur \in Helpers =>
        /\ obj[cur] \in Frames /\ waits[obj[cur]] = cur /\ life[obj[cur]] = "suspended"
        /\ obj[cur] \in Registered \ core.canceled
        /\ core.owner[cur] = core.owner[obj[cur]]

\* The end of a helper is not lost: its parent is queued, unless it is cancelled.
ParentIsWoken ==
    \A f \in Frames : waits[f] \in Helpers /\ life[waits[f]] = "done" =>
        f \in ToSet(core.ready) \cup core.canceled \cup Garbage

\* After cancel_owner nothing of the case stays in the core or comes back, whatever a
\* worker still posts.
EndedCaseIsGone == \A f \in Registered : core.owner[f] \notin ended

\* future<T>::wait() resumes when the promise reaches a terminal state, an abandoned one
\* included, unless its case has ended.
WaiterResumes ==
    waits[Consumer] = "promise" /\ complete
        ~> waits[Consumer] # "promise" \/ Consumer \in ended
==============================================================================
