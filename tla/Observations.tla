---------------------------- MODULE Observations ----------------------------
(***************************************************************************)
(* Capacity observations of one account for one resource (domain.zig,      *)
(* observe, pruneObservations and the capacity part of eligible), fed by   *)
(* the poller of the engine and observer.zig and by the rejections that    *)
(* native applications report.                                             *)
(*                                                                         *)
(* The observations are an ordered list; the order decides which entry a   *)
(* new observation replaces, and a restart rebuilds the list by observing  *)
(* the saved entries again in that order.                                  *)
(***************************************************************************)
EXTENDS Naturals, SequencesExt

CONSTANTS
    Interval,    \* poll_interval_seconds, in ticks of the clock
    Freshness,   \* freshness_seconds
    Latency,     \* timeout of a poll
    Span,        \* length of a provider's window
    Resets,      \* when the windows end that the provider may name
    Cooldowns,   \* how long a reported rejection holds (403, 429)
    MaxTime,     \* bound: the clock
    MaxReports   \* bound: reported rejections

ASSUME ObservationsAssumption ==
    /\ Interval \in Nat \ {0} /\ Freshness \in Nat \ {0} /\ Span \in Nat \ {0}
    /\ Latency \in Nat /\ MaxTime \in Nat /\ MaxReports \in Nat
    /\ Cooldowns \subseteq Nat \ {0} /\ Resets \subseteq Nat

VARIABLES
    now,        \* the clock, in seconds
    list,       \* State.observations, committed
    mode,       \* "up", or "refused": the saved list cannot be restored
    polled,     \* when the last poll was, or 0 if none since the start
    pending,    \* when the poll in flight was submitted, or 0
    reports,    \* rejections reported
    sampled,    \* history: when the newest provider sample was taken, or 0
    standing    \* history: evidence against the account that still holds

vars == <<now, list, mode, polled, pending, reports, sampled, standing>>

(* A provider sample, with capacity left or none; its window ends at reset. *)
Sample(time, reset, left) ==
    LET expires == IF time + Freshness < reset THEN time + Freshness ELSE reset
    IN  [bucket |-> "core", window |-> <<reset - Span, reset>>, at |-> time,
         expires |-> expires, status |-> "ready", left |-> left]

(* A rejection a native application reported. *)
Rejection(time, cooldown) ==
    [bucket |-> "", window |-> <<time, time + cooldown>>, at |-> time,
     expires |-> time + cooldown, status |-> "unavailable", left |-> 0]

Ended(o, time) == o.expires <= time \/ o.window[2] <= time

FreshForDemand(o, time) == o.at <= time /\ o.window[1] <= time /\ ~Ended(o, time)

Insufficient(o) == o.status = "unavailable" \/ o.left = 0

-----------------------------------------------------------------------------
(* State.observe. *)

Replaces(o, existing) ==
    /\ existing.bucket = o.bucket
    /\ existing.window = o.window \/ (o.at > existing.at /\ Ended(existing, o.at))

(* The first entry the observation may replace, or none. *)
Target(entries, o) == SelectInSeq(entries, LAMBDA e : Replaces(o, e))

GenerationConflict(entries, o) ==
    Target(entries, o) # 0 /\ o.at < entries[Target(entries, o)].at

(* Mutation of RetireOlderRejections: younger rejections are retired too. *)
RetireAllRejections(entries, o) ==
    IF Insufficient(o) \/ o.window[1] > o.at \/ o.window[2] <= o.at THEN entries
    ELSE SelectSeq(entries, LAMBDA e : ~Insufficient(e))

RetireOlderRejections(entries, o) ==
    IF Insufficient(o) \/ o.window[1] > o.at \/ o.window[2] <= o.at THEN entries
    ELSE SelectSeq(entries, LAMBDA e : ~(e.at < o.at /\ Insufficient(e)))

Observe(entries, o) ==
    RetireOlderRejections(
        IF Target(entries, o) = 0 THEN Append(entries, o)
        ELSE ReplaceAt(entries, Target(entries, o), o), o)

(* State.fromSnapshot observes the saved entries again, in their order. *)
Replayed(entries) == FoldLeft(Observe, <<>>, entries)

Restorable(entries) ==
    \A i \in DOMAIN entries :
        ~GenerationConflict(Replayed(SubSeq(entries, 1, i - 1)), entries[i])

(* Mutation of Pruned: every entry that ended goes, the newest included. *)
PrunedWhenEnded(entries, time) == SelectSeq(entries, LAMBDA e : ~Ended(e, time))

(* State.pruneObservations. *)
Pruned(entries, time) ==
    SelectSeq(entries, LAMBDA e :
        ~ /\ Ended(e, time)
          /\ \/ e.status = "unavailable"
             \/ \E n \in ToSet(entries) : n.bucket = e.bucket /\ n.at > e.at)

(* State.eligible, for a demand of one unit of the resource. *)
Eligible(entries, time) ==
    LET fresh == {e \in ToSet(entries) : FreshForDemand(e, time)}
        recovered(e) == \E r \in fresh : r.at > e.at /\ ~Insufficient(r)
        newest == {e \in fresh : \A f \in fresh : f.at <= e.at}
    IN  /\ \A e \in fresh : Insufficient(e) => recovered(e)
        /\ \A e \in newest : ~Insufficient(e)

-----------------------------------------------------------------------------
Init ==
    /\ now = 1 /\ list = <<>> /\ mode = "up"
    /\ polled = 0 /\ pending = 0 /\ reports = 0
    /\ sampled = 0 /\ standing = {}

(* Time passes; a poll in flight is answered or fails within its timeout. *)
Tick ==
    /\ now < MaxTime
    /\ pending # 0 => now < pending + Latency
    /\ now' = now + 1
    /\ standing' = {e \in standing : e.until > now'}
    /\ UNCHANGED <<list, mode, polled, pending, reports, sampled>>

(* Engine.pollSources: prune, commit, and submit the next poll unless the  *)
(* previous one is still in flight.                                        *)
PollSources ==
    /\ mode = "up"
    /\ polled = 0 \/ now - polled >= Interval
    /\ list' = Pruned(list, now)
    /\ polled' = now
    /\ pending' = IF pending = 0 THEN now ELSE pending
    /\ UNCHANGED <<now, mode, reports, sampled, standing>>

(* What an observation means for the account, whatever the list makes of   *)
(* it: capacity overrules the evidence before it, and that of the same     *)
(* second for the same window; its absence stands until its window or its  *)
(* freshness ends.                                                         *)
Weighed(o) ==
    LET until == IF o.expires < o.window[2] THEN o.expires ELSE o.window[2]
    IN  IF Insufficient(o) THEN standing \union {[at |-> o.at, until |-> until, window |-> o.window]}
        ELSE {e \in standing : e.at = o.at /\ e.window # o.window}

(* Coordinator.take of a response: the provider names the end of a current *)
(* window and what is left in it.                                          *)
TakeSample(reset, left) ==
    /\ mode = "up" /\ pending # 0
    /\ reset > now /\ reset <= now + Span
    /\ LET o == Sample(now, reset, left)
       IN  /\ ~GenerationConflict(list, o)
           /\ list' = Observe(list, o)
           /\ standing' = Weighed(o)
    /\ sampled' = now
    /\ pending' = 0
    /\ UNCHANGED <<now, mode, polled, reports>>

(* Coordinator.take of a failed poll. *)
TakeFailure ==
    /\ mode = "up" /\ pending # 0
    /\ pending' = 0
    /\ UNCHANGED <<now, list, mode, polled, reports, sampled, standing>>

(* Engine.report of a safe rejection with 403 or 429. *)
ReportRejection(cooldown) ==
    /\ mode = "up"
    /\ reports < MaxReports
    /\ LET o == Rejection(now, cooldown)
       IN  /\ ~GenerationConflict(list, o)
           /\ list' = Observe(list, o)
           /\ standing' = Weighed(o)
    /\ reports' = reports + 1
    /\ UNCHANGED <<now, mode, polled, pending, sampled>>

(* The daemon restarts: the list is replayed, the poller starts anew. *)
Restart ==
    /\ mode = "up"
    /\ IF Restorable(list) THEN list' = Replayed(list) /\ UNCHANGED mode
       ELSE mode' = "refused" /\ UNCHANGED list
    /\ polled' = 0 /\ pending' = 0
    /\ UNCHANGED <<now, reports, sampled, standing>>

Next ==
    \/ Tick \/ PollSources \/ TakeFailure \/ Restart
    \/ \E reset \in Resets, left \in {0, 1} : TakeSample(reset, left)
    \/ \E cooldown \in Cooldowns : ReportRejection(cooldown)

Spec == Init /\ [][Next]_vars

-----------------------------------------------------------------------------
(* Properties. *)

(* The list holds observations of the shape domain.Observation gives them. *)
TypeOK ==
    /\ now \in 1..MaxTime /\ mode \in {"up", "refused"}
    /\ \A o \in ToSet(list) :
          /\ o.bucket \in {"core", ""} /\ o.status \in {"ready", "unavailable"} /\ o.left \in {0, 1}
          /\ o.window[1] < o.window[2] /\ o.at <= now /\ o.at < o.expires
    /\ polled <= now /\ pending <= now /\ sampled <= now /\ reports <= MaxReports

(* The list, with its replacements, retirements, prunings and restarts,    *)
(* answers a demand as the history of the evidence does: an account is     *)
(* refused exactly while evidence against it holds that no later sample    *)
(* with capacity overruled.  The list holds only well-formed evidence.     *)
EligibilityFollowsEvidence ==
    /\ TypeOK
    /\ mode = "up" => (Eligible(list, now) <=> standing = {})

(* The newest sample of the provider is never pruned, retired or replaced  *)
(* by anything but a newer sample, also when it is stale.                  *)
NewestSampleKept ==
    sampled # 0 => \E o \in ToSet(list) : o.bucket = "core" /\ o.at = sampled

(* A committed list can be restored: an account's own observations never   *)
(* keep the daemon from restarting or from restoring its committed state.  *)
CommittedListRestorable == Restorable(list)
=============================================================================
