------------------------------ MODULE TryLater ------------------------------
(***************************************************************************)
(* Delayed work (r2/models/trylater.py), as bans, mutes and suspensions    *)
(* that end by themselves use it: a row of jobs in Cassandra, an index     *)
(* from subjects to their jobs, and the job that cron starts.  Subjects    *)
(* are users in a subreddit (banned, muted) or users (suspended).          *)
(*                                                                         *)
(* A job is a column: when it is ready, and its Cassandra timestamp, here  *)
(* the number of the call that wrote it.  No two calls fall in the same    *)
(* microsecond, and the clocks of the servers agree.                       *)
(***************************************************************************)
EXTENDS Integers, FiniteSets, FiniteSetsExt

CONSTANTS
    Subjects,       \* who is banned, muted or suspended
    NoSubject,      \* not one of them
    Moderators,     \* request handlers
    Kinds,          \* a subset of AllKinds
    Lengths,        \* durations of temporary bans
    MuteLength,     \* 72 hours
    Grace,          \* 10 minutes: how long the index outlives the job's time
    Buffer,         \* 6 hours: changes of less than this are not made
    Period,         \* one hour: cron's schedule
    LaterMaxTime,   \* bound on time
    MaxRequests,    \* bound: requests
    MaxLaterFaults  \* bound: failures

AllKinds == {"banned", "muted", "suspended"}
Forever == -1

ASSUME TryLaterAssumption ==
    /\ NoSubject \notin Subjects /\ Kinds \subseteq AllKinds /\ IsFiniteSet(Moderators)
    /\ Lengths \subseteq Nat \ {0} /\ MuteLength \in Nat \ {0}
    /\ Grace \in Nat \ {0} /\ Buffer \in Nat /\ Period \in Nat \ {0}
    /\ LaterMaxTime \in Nat /\ MaxRequests \in Nat /\ MaxLaterFaults \in Nat

EndTimes == {Forever} \cup Nat
LaterJobs == [who : Subjects, ready : Nat, stamp : Nat]
Entries == [ready : Nat, stamp : Nat, gone : Nat]

VARIABLES
    kind,       \* which of the uses this behaviour is about
    now, due,   \* time, and whether cron has started the job for this hour
    stamp,      \* timestamps handed out
    row,        \* the row of TryLater: the jobs scheduled
    index,      \* index[s]: the job of s in TryLaterBySubject
    active,     \* who has the relation, or in_timeout
    modReq,     \* modReq[m]: the request m handles
    cron,       \* the run of TryLater.run in progress
    promised,   \* promised[s]: when s was last told the restriction ends
    upset,      \* upset[s]: what has happened to s that the code allows for less
    requests, laterFaults  \* against the bounds

laterBounds == <<requests, laterFaults>>
laterVars == <<kind, now, due, stamp, row, index, active, modReq, cron, promised, upset,
               laterBounds>>

NoEntry == [ready |-> 0, stamp |-> 0, gone |-> 0]
NoReq == [at |-> "idle", who |-> NoSubject, until |-> Forever,
          lift |-> FALSE, new |-> FALSE, job |-> NoEntry]
NoRun == [at |-> "idle", ready |-> {}, unripe |-> {}, todo |-> {}]

LaterTypeOK ==
    /\ kind \in Kinds
    /\ now \in 0..LaterMaxTime /\ due \in BOOLEAN
    /\ stamp \in 0..MaxRequests
    /\ row \subseteq LaterJobs
    /\ index \in [Subjects -> Entries]
    /\ active \subseteq Subjects
    /\ modReq \in [Moderators -> [at : {"idle", "lookup", "unschedule", "unindex", "schedule",
                                        "index"},
                                  who : Subjects \cup {NoSubject}, until : EndTimes,
                                  lift : BOOLEAN, new : BOOLEAN, job : Entries]]
    /\ cron \in [at : {"idle", "hook", "unschedule", "unindex", "cleanup"},
                 ready : SUBSET LaterJobs, unripe : SUBSET LaterJobs, todo : SUBSET LaterJobs]
    /\ (cron.at = "idle") = (cron.ready = {})
    /\ cron.todo \subseteq cron.ready
    /\ cron.at \in {"hook", "unschedule", "unindex"} => cron.todo # {}
    /\ promised \in [Subjects -> EndTimes]
    /\ upset \in [Subjects -> SUBSET {"crossed", "late", "torn"}]
    /\ requests \in 0..MaxRequests /\ laterFaults \in 0..MaxLaterFaults

LaterInit ==
    /\ kind \in Kinds
    /\ now = 0 /\ due = FALSE
    /\ stamp = 0
    /\ row = {}
    /\ index = [s \in Subjects |-> NoEntry]
    /\ active = {}
    /\ modReq = [m \in Moderators |-> NoReq]
    /\ cron = NoRun
    /\ promised = [s \in Subjects |-> Forever]
    /\ upset = [s \in Subjects |-> {}]
    /\ requests = 0 /\ laterFaults = 0

\* cron starts the job on the hour, unless it is still running.
LaterTick ==
    /\ now < LaterMaxTime
    /\ now' = now + 1
    /\ due' = (due \/ now' % Period = 0)
    /\ UNCHANGED <<kind, stamp, row, index, active, modReq, cron, promised, upset, laterBounds>>

-----------------------------------------------------------------------------
(* The index                                                               *)

\* TryLaterBySubject.search: columns disappear with their TTL.
Found(s) == index[s] # NoEntry /\ now < index[s].gone

JobsOf(s) == {j \in row : j.who = s}

\* TryLater.search and unschedule, by the time the index gives; finding no
\* column, nothing is removed.
Unscheduled(s) == IF Found(s) THEN {j \in row : j.stamp # index[s].stamp} ELSE row

Late(s) == IF ~Found(s) /\ JobsOf(s) # {} THEN {"late"} ELSE {}

-----------------------------------------------------------------------------
(* Requests                                                                *)

Busy(s) == \E m \in Moderators : modReq[m].at # "idle" /\ modReq[m].who = s
CronHolds(s) == cron.at # "idle" /\ \E j \in cron.ready : j.who = s

\* Once the relation has changed, with the call that follows.
Begin(m, s, place, until, lift) ==
    /\ modReq[m].at = "idle"
    /\ requests < MaxRequests
    /\ requests' = requests + 1
    /\ modReq' = [modReq EXCEPT ![m] = IF place = "idle" THEN NoReq
                                       ELSE [NoReq EXCEPT !.at = place, !.who = s, !.until = until,
                                                          !.lift = lift, !.new = s \notin active]]
    /\ upset' = [upset EXCEPT ![s] = @ \cup (IF Busy(s) \/ CronHolds(s) THEN {"crossed"}
                                             ELSE {})]

\* POST_friend with type banned or wikibanned; length 0 is no duration.
Ban(m, s, length) ==
    /\ kind = "banned"
    /\ Begin(m, s, "lookup", IF length = 0 THEN Forever ELSE length, FALSE)
    /\ active' = active \cup {s}
    /\ UNCHANGED <<kind, now, due, stamp, row, index, cron, promised, laterFaults>>

\* POST_friend with type muted, or POST_mute_message_author.
Mute(m, s) ==
    /\ kind = "muted"
    /\ Begin(m, s, "lookup", MuteLength, FALSE)
    /\ active' = active \cup {s}
    /\ UNCHANGED <<kind, now, due, stamp, row, index, cron, promised, laterFaults>>

\* POST_suspend_user.
Suspend(m, s, length) ==
    /\ kind = "suspended"
    /\ Begin(m, s, "lookup", IF length = 0 THEN Forever ELSE length, FALSE)
    /\ active' = active \cup {s}
    /\ UNCHANGED <<kind, now, due, stamp, row, index, cron, promised, laterFaults>>

\* POST_unfriend; remove_<type>, and the schedule whether or not it was there.
Lift(m, s) ==
    /\ kind \in {"banned", "muted"}
    /\ Begin(m, s, "unschedule", Forever, TRUE)
    /\ active' = active \ {s}
    /\ UNCHANGED <<kind, now, due, stamp, row, index, cron, promised, laterFaults>>

\* POST_unmute_message_author: nothing more when the user was not muted.
UnmuteAuthor(m, s) ==
    /\ kind = "muted"
    /\ Begin(m, s, IF s \in active THEN "unschedule" ELSE "idle", Forever, TRUE)
    /\ active' = active \ {s}
    /\ UNCHANGED <<kind, now, due, stamp, row, index, cron, promised, laterFaults>>

\* POST_unsuspend_user: timeout_expiration is None once in_timeout is False,
\* and so nothing is ever unscheduled.
Unsuspend(m, s) ==
    /\ kind = "suspended"
    /\ Begin(m, s, "idle", Forever, TRUE)
    /\ active' = active \ {s}
    /\ UNCHANGED <<kind, now, due, stamp, row, index, cron, promised, laterFaults>>

Finish(m) == modReq' = [modReq EXCEPT ![m] = NoReq]
GoTo(m, place) == IF place = "idle" THEN Finish(m) ELSE modReq' = [modReq EXCEPT ![m].at = place]

Within(q) == index[q.who].ready - (now + q.until) \in (1 - Buffer)..(Buffer - 1)

\* Mutant of NextCall: a changed duration is scheduled over the old one.
NextCallKeeping(q) ==
    CASE kind = "muted" -> IF q.new THEN "schedule" ELSE "idle"
      [] kind = "suspended" -> IF q.until # Forever THEN "schedule" ELSE "idle"
      [] OTHER -> IF q.until = Forever THEN IF ~q.new /\ Found(q.who) THEN "unschedule" ELSE "idle"
                  ELSE IF ~q.new /\ Found(q.who) /\ Within(q) THEN "idle" ELSE "schedule"

\* What the request does about the schedule: a ban first looks for the one
\* before it, a mute only follows another if that is over, a suspension
\* always replaces.
NextCall(q) ==
    CASE kind = "muted" -> IF q.new THEN "schedule" ELSE "idle"
      [] kind = "suspended" -> IF Found(q.who) THEN "unschedule"
                               ELSE IF q.until # Forever THEN "schedule" ELSE "idle"
      [] OTHER -> IF q.until = Forever THEN IF ~q.new /\ Found(q.who) THEN "unschedule" ELSE "idle"
                  ELSE IF ~q.new /\ Found(q.who) /\ Within(q) THEN "idle" ELSE "unschedule"

\* add_rel_note fails when the relation is gone again; only
\* POST_mute_message_author writes the note last.
NoteFails(m) ==
    /\ modReq[m].at = "lookup"
    /\ kind # "suspended" /\ modReq[m].who \notin active
    /\ Finish(m)
    /\ UNCHANGED <<kind, now, due, stamp, row, index, active, cron, promised, upset, laterBounds>>

\* The user is told when it ends, unless an earlier message stands.
LookUp(m) ==
    LET q == modReq[m]  s == q.who
    IN  /\ q.at = "lookup"
        /\ kind = "banned" => s \in active
        /\ GoTo(m, NextCall(q))
        /\ promised' = IF NextCall(q) = "idle" /\ q.until = Forever
                       THEN [promised EXCEPT ![s] = Forever] ELSE promised
        /\ upset' = IF kind = "muted" THEN upset ELSE [upset EXCEPT ![s] = @ \cup Late(s)]
        /\ UNCHANGED <<kind, now, due, stamp, row, index, active, cron, laterBounds>>

Unschedule(m) ==
    LET s == modReq[m].who
    IN  /\ modReq[m].at = "unschedule"
        /\ row' = Unscheduled(s)
        /\ upset' = [upset EXCEPT ![s] = @ \cup Late(s)]
        /\ GoTo(m, "unindex")
        /\ UNCHANGED <<kind, now, due, stamp, index, active, cron, promised, laterBounds>>

Unindex(m) ==
    LET q == modReq[m]
    IN  /\ q.at = "unindex"
        /\ index' = [index EXCEPT ![q.who] = NoEntry]
        /\ IF q.until # Forever THEN GoTo(m, "schedule") ELSE Finish(m)
        /\ promised' = IF q.until = Forever /\ ~q.lift
                       THEN [promised EXCEPT ![q.who] = Forever] ELSE promised
        /\ UNCHANGED <<kind, now, due, stamp, row, active, cron, upset, laterBounds>>

\* TryLater.schedule.
Schedule(m) ==
    LET q == modReq[m]
    IN  /\ q.at = "schedule"
        /\ stamp' = stamp + 1
        /\ row' = row \cup {[who |-> q.who, ready |-> now + q.until, stamp |-> stamp']}
        /\ modReq' = [modReq EXCEPT ![m].at = "index",
                                    ![m].job = [NoEntry EXCEPT !.ready = now + q.until,
                                                               !.stamp = stamp']]
        /\ UNCHANGED <<kind, now, due, index, active, cron, promised, upset, laterBounds>>

\* The subject's column, over an older one.  Its TTL counts from here.
IndexJob(m) ==
    LET q == modReq[m]
    IN  /\ q.at = "index"
        /\ index' = [index EXCEPT ![q.who] = [q.job EXCEPT !.gone = now + q.until + Grace]]
        /\ promised' = [promised EXCEPT ![q.who] = q.job.ready]
        /\ Finish(m)
        /\ UNCHANGED <<kind, now, due, stamp, row, active, cron, upset, laterBounds>>

\* An error or a restart of the app server.
LaterRequestDies(m) ==
    /\ modReq[m].at # "idle"
    /\ laterFaults < MaxLaterFaults
    /\ laterFaults' = laterFaults + 1
    /\ upset' = [upset EXCEPT ![modReq[m].who] = @ \cup {"torn"}]
    /\ Finish(m)
    /\ UNCHANGED <<kind, now, due, stamp, row, index, active, cron, promised, requests>>

-----------------------------------------------------------------------------
(* TryLater.run                                                            *)

\* The rows for which a hook is registered: srunban and srmute.  There is
\* none for untimeout.
Hooked == {"banned", "muted"}

ReadyJobs == {j \in row : kind \in Hooked /\ j.ready <= now}

\* process_ready_items reads the row; with nothing ready it returns.
CronStart ==
    /\ cron.at = "idle"
    /\ due \/ now = LaterMaxTime
    /\ due' = FALSE
    /\ cron' = IF ReadyJobs = {} THEN NoRun
               ELSE [at |-> "hook", ready |-> ReadyJobs, unripe |-> row \ ReadyJobs,
                     todo |-> ReadyJobs]
    /\ upset' = [s \in Subjects |->
                    upset[s] \cup (IF Busy(s) /\ \E j \in ReadyJobs : j.who = s
                                   THEN {"crossed"} ELSE {})]
    /\ UNCHANGED <<kind, now, stamp, row, index, active, modReq, promised, laterBounds>>

\* The columns come in the order of their times.
FirstJob(jobs) ==
    CHOOSE j \in jobs :
        \A k \in jobs : j.ready < k.ready \/ (j.ready = k.ready /\ j.stamp <= k.stamp)

\* Mutant of After: the last item is followed by another.
AfterEndless(jobs) == [cron EXCEPT !.todo = jobs, !.at = "hook"]

After(jobs) == [cron EXCEPT !.todo = jobs, !.at = IF jobs = {} THEN "cleanup" ELSE "hook"]

\* Mutant of Rest: the hook returns after the first item.
RestDropped(jobs) == {}

Rest(jobs) == jobs \ {FirstJob(jobs)}

\* on_subreddit_unban, unmute_hook: the relation goes; a mute is also unscheduled.
HookLifts ==
    /\ cron.at = "hook"
    /\ active' = active \ {FirstJob(cron.todo).who}
    /\ cron' = IF kind = "muted" THEN [cron EXCEPT !.at = "unschedule"]
               ELSE After(Rest(cron.todo))
    /\ UNCHANGED <<kind, now, due, stamp, row, index, modReq, promised, upset, laterBounds>>

HookUnschedules ==
    /\ cron.at = "unschedule"
    /\ row' = Unscheduled(FirstJob(cron.todo).who)
    /\ cron' = [cron EXCEPT !.at = "unindex"]
    /\ UNCHANGED <<kind, now, due, stamp, index, active, modReq, promised, upset, laterBounds>>

HookUnindexes ==
    /\ cron.at = "unindex"
    /\ index' = [index EXCEPT ![FirstJob(cron.todo).who] = NoEntry]
    /\ cron' = After(Rest(cron.todo))
    /\ UNCHANGED <<kind, now, due, stamp, row, active, modReq, promised, upset, laterBounds>>

\* process_ready_items swallows the exception: the rest of the batch is not
\* run, and is removed with it.
HookFails ==
    /\ cron.at \in {"hook", "unschedule", "unindex"}
    /\ laterFaults < MaxLaterFaults
    /\ laterFaults' = laterFaults + 1
    /\ upset' = [s \in Subjects |->
                    upset[s] \cup (IF \E j \in cron.todo : j.who = s THEN {"torn"} ELSE {})]
    /\ cron' = [cron EXCEPT !.at = "cleanup"]
    /\ UNCHANGED <<kind, now, due, stamp, row, index, active, modReq, promised, requests>>

Stamps(jobs) == {j.stamp : j \in jobs}

\* Mutant of Remaining: the row delete is used when it is not safe.
RemainingYounger(ready, unripe) == {j \in row : j.stamp > Max(Stamps(ready))}

\* cleanup: what a row delete with a timestamp, or else a column delete, leaves.
Remaining(ready, unripe) ==
    IF unripe = {} \/ Min(Stamps(unripe)) > Max(Stamps(ready))
    THEN {j \in row : j.stamp > Max(Stamps(ready))}
    ELSE row \ ready

CleanUp ==
    /\ cron.at = "cleanup"
    /\ row' = Remaining(cron.ready, cron.unripe)
    /\ cron' = NoRun
    /\ UNCHANGED <<kind, now, due, stamp, index, active, modReq, promised, upset, laterBounds>>

\* The process is killed; the next hour starts another.
CronDies ==
    /\ cron.at # "idle"
    /\ laterFaults < MaxLaterFaults
    /\ laterFaults' = laterFaults + 1
    /\ upset' = [s \in Subjects |-> upset[s] \cup (IF CronHolds(s) THEN {"torn"} ELSE {})]
    /\ cron' = NoRun
    /\ UNCHANGED <<kind, now, due, stamp, row, index, active, modReq, promised, requests>>

-----------------------------------------------------------------------------

ModeratorStep(m) == NoteFails(m) \/ LookUp(m) \/ Unschedule(m) \/ Unindex(m) \/ Schedule(m)
                    \/ IndexJob(m)
CronStep == CronStart \/ HookLifts \/ HookUnschedules \/ HookUnindexes \/ CleanUp

LaterNext ==
    \/ LaterTick
    \/ \E m \in Moderators, s \in Subjects :
          \/ \E length \in {0} \cup Lengths : Ban(m, s, length) \/ Suspend(m, s, length)
          \/ Mute(m, s) \/ Lift(m, s) \/ UnmuteAuthor(m, s) \/ Unsuspend(m, s)
    \/ \E m \in Moderators : ModeratorStep(m) \/ LaterRequestDies(m)
    \/ CronStep \/ HookFails \/ CronDies

LaterSafe == LaterInit /\ [][LaterNext]_laterVars

LaterFairness ==
    (\A m \in Moderators : WF_laterVars(ModeratorStep(m))) /\ WF_laterVars(CronStep)

LaterSpec == LaterSafe /\ LaterFairness /\ WF_laterVars(LaterTick)

-----------------------------------------------------------------------------
(* Properties                                                              *)

(***************************************************************************)
(* A job leaves the row only in the cleanup after the batch it was in, or  *)
(* because its own subject is being unscheduled: the row delete of cleanup *)
(* takes nothing that is not ripe and nothing scheduled meanwhile, however *)
(* requests, runs and failures interleave.                                 *)
(***************************************************************************)
JobsKept ==
    [][\A j \in row \ row' :
          \/ cron.at = "cleanup" /\ j \in cron.ready
          \/ cron.at = "unschedule" /\ j.who = FirstJob(cron.todo).who
          \/ \E m \in Moderators : modReq[m].at = "unschedule" /\ modReq[m].who = j.who]_laterVars

Quiet(s) == ~Busy(s) /\ ~CronHolds(s)

(***************************************************************************)
(* What is scheduled is what the user was told, after any sequence of bans,*)
(* changes of their length, mutes, suspensions and lifts of several users: *)
(* a temporary restriction has its job at its end and at no other time; a *)
(* permanent one has none, so it is never lifted; nor has a user who is    *)
(* free (except after unsuspending, which forgets the job).  Not when      *)
(* requests for one user overlap with each other or the run ("crossed"),   *)
(* nor when something died ("torn"), nor when the index had expired before *)
(* the job ran ("late").                                                   *)
(***************************************************************************)
PendingExact ==
    \A s \in Subjects :
        (Quiet(s) /\ upset[s] = {} /\ (s \in active \/ kind # "suspended")) =>
            {j.ready : j \in JobsOf(s)} =
                IF s \in active /\ promised[s] # Forever THEN {promised[s]} ELSE {}

Over(s) == s \in active /\ promised[s] # Forever /\ promised[s] <= now

(***************************************************************************)
(* A ban or a mute whose time is over is lifted in the end: once the last  *)
(* request is served, TryLater.run leaves none in force, even when a       *)
(* change came too late for the index; unless requests for the same user   *)
(* overlapped, or something died.                                          *)
(***************************************************************************)
BansEnd ==
    <>[](kind \in Hooked =>
            \A s \in Subjects : Over(s) => upset[s] \cap {"crossed", "torn"} # {})

=============================================================================
