------------------------------ MODULE Contexts ------------------------------
(***************************************************************************)
(* The script machine (src/src/scripting/ScriptMachine.cpp): its pool of   *)
(* contexts, which threads hand to each other, the requests without which  *)
(* no script object may be touched, the objects that C++ code holds, and   *)
(* the collection of garbage.                                              *)
(*                                                                         *)
(* Workers check teams, each with a context of the pool, and begin, watch  *)
(* and leave the one battle, whose context its queue thread runs turns     *)
(* with.  A move may ask a player for a pokemon in the middle of a script: *)
(* the queue thread then gives up the mutex and the context, and takes     *)
(* them back when there is an answer.                                      *)
(*                                                                         *)
(* Of the JavaScript engine, which is not part of the repository, this is  *)
(* taken: a collection waits until the contexts of other threads have no   *)
(* request open, no request begins meanwhile, and what is not rooted is    *)
(* gone afterwards, but for values of requests of the collecting thread.   *)
(*                                                                         *)
(* Definitions named Mutant... are wrong versions of the one that follows; *)
(* they are not used: they are there to see the properties fail.           *)
(***************************************************************************)
EXTENDS Naturals, FiniteSets, Sequences

CONSTANTS
    Worker,
    Queue,          \* the thread of the battle's queue
    Reclaimer,      \* the thread of ScriptMachineImpl::deadRoots
    MaxContexts,    \* bound: contexts in the pool
    Object,         \* bound: objects that C++ code holds
    Nothing

ASSUME ContextsAssumption ==
    /\ Queue \notin Worker /\ Reclaimer \notin Worker \cup {Queue}
    /\ Nothing \notin Worker \cup {Queue, Reclaimer}
    /\ MaxContexts \in Nat \ {0}

ScriptThread == Worker \cup {Queue, Reclaimer}
Context == 1 .. MaxContexts

VARIABLES
    made,           \* ScriptMachineImpl::contexts is 1 .. made
    busy,           \* those with m_busy
    thread,         \* the thread that a context is set to
    depth,          \* its open requests
    at,             \* where each thread is
    uses,           \* the context it has, 0 if none
    kept,           \* the contexts of checked teams that exist
    spare,          \* the context that the end of a battle acquired, or 0
    saved,          \* what clearContextThread returned to the queue thread
    mutex,          \* who owns NetworkBattleImpl::m_mutex
    arena,         \* its context, 0 without a battle
    over,           \* NetworkBattleImpl::m_terminated
    waiting,        \* NetworkBattleImpl::m_waiting
    collector,      \* the thread that collects garbage, or waits to
    object,         \* each object: absent, fresh, rooted, dead or collected
    holder,         \* the thread whose C++ code holds it
    deadRoots       \* the queue of roots to be removed

ctxVars == <<made, busy, thread, depth, at, uses, kept, spare, saved, mutex, arena, over,
             waiting, collector, object, holder, deadRoots>>
pool == <<made, busy, thread, depth>>
others == <<kept, spare>>
fight == <<mutex, arena, over, waiting, saved>>
heap == <<object, holder, deadRoots>>

Moves(t, from, to) ==
    /\ at[t] = from /\ collector /= t
    /\ at' = [at EXCEPT ![t] = to]
Held(t) == {o \in Object : holder[o] = t}

-----------------------------------------------------------------------------
(* Contexts and threads.                                                   *)

(* acquireContext: one that is not busy, or else a new one; either is set  *)
(* to the thread.                                                          *)
Free == (1 .. made) \ busy
Acquire(t, c) ==
    /\ IF Free /= {} THEN c \in Free /\ made' = made
       ELSE c = made + 1 /\ c <= MaxContexts /\ made' = c
    /\ busy' = busy \cup {c}
    /\ thread' = [thread EXCEPT ![c] = t]

(* The deleter of a ScriptContextPtr.                                      *)
Release(c) ==
    /\ busy' = busy \ {c}
    /\ thread' = [thread EXCEPT ![c] = Nothing]
    /\ depth' = [depth EXCEPT ![c] = 0]

(* ScriptContextLock; its destructor suspends what requests are left.      *)
Lock(t, c) == thread' = [thread EXCEPT ![c] = t]
Unlock(c) ==
    /\ thread' = [thread EXCEPT ![c] = Nothing]
    /\ depth' = [depth EXCEPT ![c] = 0]

-----------------------------------------------------------------------------
(* Requests, and the objects that are made in them.                        *)

BeginRequest(t) ==
    /\ Moves(t, "scripts", "request")
    /\ collector = Nothing
    /\ depth' = [depth EXCEPT ![uses[t]] = @ + 1]
    /\ UNCHANGED <<others, made, busy, thread, uses, fight, collector, heap>>

(* callFunctionByName has a request of its own, which is over when the     *)
(* value is returned: what protects it then is the request of the caller.  *)
MutantCallFunction(t, o) ==
    /\ Moves(t, "request", "value")
    /\ object[o] = "absent"
    /\ object' = [object EXCEPT ![o] = "fresh"]
    /\ holder' = [holder EXCEPT ![o] = t]
    /\ depth' = [depth EXCEPT ![uses[t]] = @ - 1]
    /\ UNCHANGED <<others, made, busy, thread, uses, fight, collector, deadRoots>>
CallFunction(t, o) ==
    /\ Moves(t, "request", "value")
    /\ object[o] = "absent"
    /\ object' = [object EXCEPT ![o] = "fresh"]
    /\ holder' = [holder EXCEPT ![o] = t]
    /\ UNCHANGED <<others, pool, uses, fight, collector, deadRoots>>

(* An effect that is copied, a status that was transformed, an array for a *)
(* team: rooted before the request ends.                                   *)
MakeRoot(t, o) ==
    /\ Moves(t, "value", "request")
    /\ o \in Held(t) /\ object[o] \in {"fresh", "collected"}
    /\ object' = [object EXCEPT ![o] = IF @ = "fresh" THEN "rooted" ELSE @]
    /\ UNCHANGED <<others, pool, uses, fight, collector, holder, deadRoots>>

(* A modifier: read while the request is open, and given up.               *)
ReadValue(t, o) ==
    /\ Moves(t, "value", "request")
    /\ o \in Held(t) /\ object[o] = "fresh"
    /\ object' = [object EXCEPT ![o] = "absent"]
    /\ holder' = [holder EXCEPT ![o] = Nothing]
    /\ UNCHANGED <<others, pool, uses, fight, collector, deadRoots>>

EndRequest(t) ==
    /\ Moves(t, "request", "scripts")
    /\ depth' = [depth EXCEPT ![uses[t]] = @ - 1]
    /\ UNCHANGED <<others, made, busy, thread, uses, fight, collector, heap>>

(* The last shared_ptr of a root goes: the root thread is to remove it.    *)
Drop(t, o) ==
    /\ at[t] = "scripts" /\ o \in Held(t) /\ object[o] = "rooted"
    /\ holder' = [holder EXCEPT ![o] = Nothing]
    /\ deadRoots' = Append(deadRoots, o)
    /\ UNCHANGED <<others, pool, at, uses, fight, collector, object>>

-----------------------------------------------------------------------------
(* The root thread, which has a context from the start.                    *)

ReclaimRoot ==
    /\ Moves(Reclaimer, "idle", "removing")
    /\ deadRoots /= <<>> /\ collector = Nothing
    /\ depth' = [depth EXCEPT ![uses[Reclaimer]] = @ + 1]
    /\ UNCHANGED <<others, made, busy, thread, uses, fight, collector, heap>>

RemoveRoot ==
    /\ Moves(Reclaimer, "removing", "idle")
    /\ object' = [object EXCEPT ![Head(deadRoots)] =
                      IF @ = "rooted" THEN "dead" ELSE @]
    /\ deadRoots' = Tail(deadRoots)
    /\ depth' = [depth EXCEPT ![uses[Reclaimer]] = @ - 1]
    /\ UNCHANGED <<others, made, busy, thread, uses, fight, collector, holder>>

-----------------------------------------------------------------------------
(* Collections: asked for by a call that needs memory, or by the end of a  *)
(* battle, on a context without requests.                                  *)

AskForMemory(t) ==
    /\ at[t] = "request" /\ collector = Nothing
    /\ collector' = t
    /\ UNCHANGED <<others, pool, at, uses, fight, heap>>

(* Contexts whose requests a collection has to wait for.                   *)
Requested == {c \in 1 .. made : depth[c] > 0 /\ thread[c] /= collector}

Collect ==
    /\ collector /= Nothing /\ Requested = {}
    /\ object' = [o \in Object |->
                    IF object[o] = "dead" THEN "absent"
                    ELSE IF object[o] = "fresh" /\ holder[o] /= collector THEN "collected"
                    ELSE object[o]]
    /\ collector' = Nothing
    /\ UNCHANGED <<others, pool, at, uses, fight, holder, deadRoots>>

-----------------------------------------------------------------------------
(* Checking a team.                                                        *)

CheckTeam(w) ==
    /\ Moves(w, "idle", "scripts")
    /\ \E c \in Context : Acquire(w, c) /\ uses' = [uses EXCEPT ![w] = c]
    /\ UNCHANGED <<others, depth, fight, collector, heap>>

(* The pokemon of the team keep the context (Pokemon::m_scx) until they    *)
(* are gone or in a battle, whichever thread sees to that.                 *)
TeamChecked(w) ==
    /\ Moves(w, "scripts", "idle")
    /\ mutex /= w /\ Held(w) = {}
    /\ Unlock(uses[w])
    /\ kept' = kept \cup {uses[w]}
    /\ uses' = [uses EXCEPT ![w] = 0]
    /\ UNCHANGED <<spare, made, busy, fight, collector, heap>>

TeamGone(c) ==
    /\ c \in kept
    /\ Release(c)
    /\ kept' = kept \ {c}
    /\ UNCHANGED <<spare, made, at, uses, fight, collector, heap>>

-----------------------------------------------------------------------------
(* The battle.                                                             *)

(* The constructor acquires its context and beginBattle clears it.         *)
BeginBattle(w) ==
    /\ Moves(w, "idle", "scripts")
    /\ arena = 0 /\ mutex = Nothing
    /\ \E c \in Context : Acquire(w, c) /\ uses' = [uses EXCEPT ![w] = c] /\ arena' = c
    /\ mutex' = w /\ over' = FALSE
    /\ UNCHANGED <<others, depth, waiting, saved, collector, heap>>

(* executeTurn, prepareSpectator and handleForfeit: the mutex, and then    *)
(* the context.  A forfeit waits until nobody is waiting.                  *)
TakeBattle(t) ==
    /\ Moves(t, "idle", "scripts")
    /\ arena /= 0 /\ mutex = Nothing /\ ~over
    /\ mutex' = t
    /\ Lock(t, arena)
    /\ uses' = [uses EXCEPT ![t] = arena]
    /\ UNCHANGED <<others, made, busy, depth, arena, over, waiting, saved, collector, heap>>

Leave(t) ==
    /\ Moves(t, "scripts", "idle")
    /\ mutex = t /\ Held(t) = {}
    /\ mutex' = Nothing
    /\ Unlock(uses[t])
    /\ uses' = [uses EXCEPT ![t] = 0]
    /\ UNCHANGED <<others, made, busy, arena, over, waiting, saved, collector, heap>>

(* requestInactivePokemon, below a script: the thread waits for an answer  *)
(* without the mutex and the context.                                      *)
MutantRequestInactivePokemon ==
    /\ Moves(Queue, "request", "asking")
    /\ saved' = depth[uses[Queue]]
    /\ thread' = [thread EXCEPT ![uses[Queue]] = Nothing]
    /\ waiting' = TRUE /\ mutex' = Nothing
    /\ UNCHANGED <<others, made, busy, depth, uses, arena, over, collector, heap>>
RequestInactivePokemon ==
    /\ Moves(Queue, "request", "asking")
    /\ saved' = depth[uses[Queue]]
    /\ Unlock(uses[Queue])
    /\ waiting' = TRUE /\ mutex' = Nothing
    /\ UNCHANGED <<others, made, busy, uses, arena, over, collector, heap>>

(* The answer, or a forfeit, which answers itself.                         *)
Answer ==
    /\ waiting /\ mutex = Nothing
    /\ waiting' = FALSE
    /\ UNCHANGED <<others, pool, at, uses, mutex, arena, over, saved, collector, heap>>

WakeUp ==
    /\ Moves(Queue, "asking", "resuming")
    /\ ~waiting /\ mutex = Nothing
    /\ mutex' = Queue
    /\ Lock(Queue, uses[Queue])
    /\ UNCHANGED <<others, made, busy, depth, uses, arena, over, waiting, saved, collector, heap>>

ResumeRequests ==
    /\ Moves(Queue, "resuming", "request")
    /\ collector = Nothing
    /\ depth' = [depth EXCEPT ![uses[Queue]] = @ + saved]
    /\ UNCHANGED <<others, made, busy, thread, uses, fight, collector, heap>>

(* terminate, on the queue thread or below a forfeit: a context is         *)
(* acquired to collect garbage with, and released.                         *)
Terminate(t) ==
    /\ Moves(t, "scripts", "collecting")
    /\ mutex = t /\ ~over /\ collector = Nothing
    /\ over' = TRUE
    /\ collector' = t
    /\ \E c \in Context : Acquire(t, c) /\ spare' = c
    /\ UNCHANGED <<kept, depth, uses, mutex, arena, waiting, saved, heap>>

Terminated(t) ==
    /\ Moves(t, "collecting", "scripts")
    /\ Release(spare)
    /\ spare' = 0
    /\ UNCHANGED <<kept, made, uses, fight, collector, heap>>

(* The last reference to the battle, and with it to its context, goes.     *)
DestroyBattle ==
    /\ arena /= 0 /\ over /\ mutex = Nothing /\ at[Queue] = "idle"
    /\ Release(arena)
    /\ arena' = 0
    /\ UNCHANGED <<others, made, at, uses, mutex, over, waiting, saved, collector, heap>>

-----------------------------------------------------------------------------
ContextsInit ==
    /\ made = 1 /\ busy = {1}
    /\ thread = [c \in Context |-> IF c = 1 THEN Reclaimer ELSE Nothing]
    /\ depth = [c \in Context |-> 0]
    /\ at = [t \in ScriptThread |-> "idle"]
    /\ uses = [t \in ScriptThread |-> IF t = Reclaimer THEN 1 ELSE 0]
    /\ kept = {} /\ spare = 0
    /\ saved = 0 /\ mutex = Nothing /\ arena = 0 /\ over = FALSE /\ waiting = FALSE
    /\ collector = Nothing
    /\ object = [o \in Object |-> "absent"] /\ holder = [o \in Object |-> Nothing]
    /\ deadRoots = <<>>

Scripted(t) ==
    \/ BeginRequest(t) \/ EndRequest(t) \/ AskForMemory(t)
    \/ \E o \in Object : CallFunction(t, o) \/ MakeRoot(t, o) \/ ReadValue(t, o) \/ Drop(t, o)
    \/ TakeBattle(t) \/ Leave(t) \/ Terminate(t) \/ Terminated(t)

ContextsNext ==
    \/ \E w \in Worker : CheckTeam(w) \/ TeamChecked(w) \/ BeginBattle(w)
    \/ \E c \in Context : TeamGone(c)
    \/ \E t \in Worker \cup {Queue} : Scripted(t)
    \/ RequestInactivePokemon \/ Answer \/ WakeUp \/ ResumeRequests
    \/ ReclaimRoot \/ RemoveRoot \/ Collect \/ DestroyBattle

ContextsSpec == ContextsInit /\ [][ContextsNext]_ctxVars

-----------------------------------------------------------------------------
(* In a request, or with a value of one.                                   *)
Inside(t) == at[t] \in {"request", "value", "removing"}

(* A thread that is in a request has the context to itself: it is set to   *)
(* the thread, however the battle's context went from hand to hand and was *)
(* given up for a question in between, and no other thread is in a request *)
(* with it.                                                                *)
ContextsApart ==
    \A t \in ScriptThread : Inside(t) =>
        /\ thread[uses[t]] = t
        /\ \A u \in ScriptThread \ {t} : Inside(u) => uses[u] /= uses[t]

(* What C++ code holds is not collected: values are rooted in the request  *)
(* that returned them, and a root is not removed while somebody holds it.  *)
HeldAreKept == \A o \in Object : holder[o] /= Nothing => object[o] \in {"fresh", "rooted"}

(* A collection waits for nobody who waits himself, for a player, for the  *)
(* mutex or for the collection: whoever has a request open can end it.     *)
CollectionsGoOn ==
    collector /= Nothing =>
        \A c \in Requested : \E t \in ScriptThread : uses[t] = c /\ Inside(t)

(* Contexts and roots are not shared by those who do not expect it: a      *)
(* request has its context, and what it returned stays as long as it is    *)
(* held.                                                                   *)
RequestsAreSafe == ContextsApart /\ HeldAreKept
=============================================================================
