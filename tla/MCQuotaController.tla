------------------------- MODULE MCQuotaController -------------------------
(***************************************************************************)
(* Instances of QuotaController for TLC: what the provider may answer, as  *)
(* read and judged by the real adapters.                                   *)
(***************************************************************************)
EXTENDS QuotaController, ProviderAdapters, FiniteSets, TLC

CONSTANTS
  ResetTimes,  \* reset times the provider may report at any time
  UsedPercents \* usage it may report

-----------------------------------------------------------------------------
(* What the providers answer                                               *)

(* The 5 h window of Codex: its length may be left out, its reset may be   *)
(* one of the fixed times or a full length ahead of the read.              *)
CodexRaw ==
  [section : {"main"}, slot : {"primary"}, length : {0, FiveHours},
   resetAt : ResetTimes \cup {Missing}, resetAfter : {FiveHours, Missing},
   used : UsedPercents \cup {Missing}]

CodexAnswers == [t \in 1..MaxTime |-> CodexReadQuota(CodexRaw, t)]
CodexObserve(t) == CodexAnswers[t]

CodexBuckets == {CodexBucket(raw) : raw \in CodexRaw}
CodexGroups == [b \in Buckets |-> CodexGroup(b)]

(* The same with the code review window in some answers; it ends at 2. *)
ReviewRaw ==
  CodexRaw \cup
  [section : {"code_review"}, slot : {"primary"}, length : {0},
   resetAt : {2}, resetAfter : {Missing}, used : {0}]

ReviewAnswers == [t \in 1..MaxTime |-> CodexReadQuota(ReviewRaw, t)]
ReviewObserve(t) == ReviewAnswers[t]

ReviewBuckets == {CodexBucket(raw) : raw \in ReviewRaw}

(* The windows of Antigravity, two of which share a group; the weekly one  *)
(* may carry a length no request is made for, or none.                     *)
AntigravityLengths ==
  {<<"gemini-5h", FiveHours>>, <<"gemini-weekly", SevenDays>>,
   <<"gemini-weekly", LongestPlan>>, <<"gemini-weekly", 0>>}

AntigravityRaw(t) ==
  UNION {[bucket : {b}, length : {l}, used : UsedPercents \cup {Missing},
          reset : ResetTimes \cup {t + l, Missing}] :
         <<b, l>> \in {x \in AntigravityLengths : x[1] \in Buckets}}

AntigravityAnswers ==
  [t \in 1..MaxTime |-> AntigravityReadQuota(AntigravityRaw(t), t)]
AntigravityObserve(t) == AntigravityAnswers[t]

AntigravityGroups == [b \in Buckets |-> AntigravityGroup(b)]

-----------------------------------------------------------------------------
(* Configurations                                                          *)

Delays == <<1, 2>>
NoDelays == <<>>

AttemptSymmetry == Permutations(AttemptIds)
=============================================================================
