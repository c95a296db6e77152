----------------------------- MODULE DurableLog -----------------------------
(***************************************************************************)
(* What a write-ahead log promises its users: entries stay in order, a     *)
(* crash takes away nothing that a Sync covered, and a compaction replaces *)
(* the prefix it was begun with and nothing else.  Wal implements it.      *)
(***************************************************************************)
EXTENDS Naturals, Sequences, FiniteSets

CONSTANTS Appends,   \* entries callers append: [type, slot, id]
          Plans      \* base and retained entries of the compactions

VARIABLES
    log,     \* the entries a reader sees
    acked,   \* a Sync has covered the entries up to this id
    plan     \* the compaction under way

logVars == <<log, acked, plan>>

NoPlan == [base |-> "none"]

\* What a compaction that was begun with the first cut entries keeps of them.
CompactedPrefix(p, s) ==
    <<p.base>> \o p.keep
        \o SelectSeq(SubSeq(s, 1, p.cut),
                     LAMBDA e : e.type # "proposal" /\ e.slot > p.base.slot)

Compacted(p, s) == CompactedPrefix(p, s) \o SubSeq(s, p.cut + 1, Len(s))

LogInit == log = <<>> /\ acked = 0 /\ plan = NoPlan

AppendEntry ==
    /\ Len(log') = Len(log) + 1
    /\ \E e \in Appends : log' = Append(log, e)
    /\ UNCHANGED <<acked, plan>>

SyncLog ==
    /\ acked' \in {log[i].id : i \in DOMAIN log}
    /\ \A i \in DOMAIN log : log[i].id <= acked'
    /\ UNCHANGED <<log, plan>>

BeginCompact ==
    /\ plan = NoPlan
    /\ \E p \in Plans : plan' = [base |-> p.base, keep |-> p.keep, cut |-> Len(log)]
    /\ UNCHANGED <<log, acked>>

Compact ==
    /\ plan # NoPlan
    /\ log' = Compacted(plan, log)
    /\ plan' = NoPlan
    /\ UNCHANGED acked

AbortCompact ==
    /\ plan' = NoPlan
    /\ UNCHANGED <<log, acked>>

\* A crash keeps at least what was acknowledged; a compaction under way takes
\* effect or it does not.
LoseSuffix(s, t) ==
    /\ Len(t) <= Len(s) /\ t = SubSeq(s, 1, Len(t))
    /\ \A i \in Len(t) + 1..Len(s) : s[i].id > acked

Crash ==
    /\ plan' = NoPlan
    /\ LoseSuffix(log, log') \/ (plan # NoPlan /\ LoseSuffix(Compacted(plan, log), log'))
    /\ UNCHANGED acked

LogNext == AppendEntry \/ SyncLog \/ BeginCompact \/ Compact \/ AbortCompact \/ Crash

LogSpec == LogInit /\ [][LogNext]_logVars

=============================================================================
