-------------------------- MODULE ProviderAdapters --------------------------
(***************************************************************************)
(* The two registered activation adapters (adapters/codex, adapters/       *)
(* antigravity): how ReadQuota turns one raw window of the provider's      *)
(* answer into a quota window, which windows the adapters activate, and    *)
(* their verdict on a request.                                             *)
(*                                                                         *)
(* A raw window is a record of the fields the parsers read.  A field that  *)
(* is left out, or that does not parse, is Missing; lengths are numbers,   *)
(* 0 for one that is left out.  Texts that only name a window are the      *)
(* names themselves.                                                       *)
(***************************************************************************)
EXTENDS Naturals

CONSTANTS
  RollTolerance, \* the two minutes both VerifyActivation allow
  LazyTolerance, \* the three minutes both parsers allow for a lazy window
  FiveHours, SevenDays, \* lengths of the windows that are activated
  LongestPlan,   \* the 32 days up to which Codex activates plan windows
  Missing        \* a field without a value

ASSUME ToleranceAssumption ==
  /\ {RollTolerance, LazyTolerance} \subseteq Nat
  /\ {FiveHours, SevenDays, LongestPlan} \subseteq Nat \ {0}
  /\ Missing \notin Nat

(* A window nobody has used and that ends one full length from now. *)
LazyHint(used, reset, length, t) ==
  /\ used = 0
  /\ reset <= t + length + LazyTolerance
  /\ t + length <= reset + LazyTolerance

RolledSince(before, after) == after.reset > before.reset + RollTolerance

(* QuotaWindow.Valid, as far as a parser lets through what is not valid. *)
Valid(w) == w.used # Missing

(* What parsed windows may end up as after normalizeWindows: the answer    *)
(* shows some of the buckets, not none, each once and with a valid window. *)
(* All other answers make ReadQuota or normalizeWindows fail.              *)
Observations(parsed) ==
  LET valid == {w \in parsed : Valid(w)}
      window(w) == [reset |-> w.reset, used |-> w.used, lazy |-> w.lazy,
                    can |-> w.can]
  IN  UNION {{o \in [bs -> {window(w) : w \in valid}] :
                \A b \in bs : \E w \in valid : w.bucket = b /\ o[b] = window(w)} :
             bs \in SUBSET {w.bucket : w \in valid} \ {{}}}

-----------------------------------------------------------------------------
(* Codex: a window is named by its section of the answer, its slot and its *)
(* length.                                                                 *)

(* The length a slot has when the answer does not tell. *)
Fallback(raw) ==
  IF raw.section \notin {"main", "code_review"} THEN 0
  ELSE IF raw.slot = "primary" THEN FiveHours ELSE SevenDays

CodexLength(raw) == IF raw.length > 0 THEN raw.length ELSE Fallback(raw)

(* An absolute reset time goes before one relative to the read. *)
CodexReset(raw, t) ==
  IF raw.resetAt # Missing THEN raw.resetAt
  ELSE IF raw.resetAfter # Missing THEN t + raw.resetAfter ELSE Missing

CodexBucket(raw) ==
  [section |-> raw.section, slot |-> raw.slot, length |-> CodexLength(raw)]

(* Main windows of the 5 h kind or of a weekly to monthly plan. *)
CodexCanActivate(bucket) ==
  /\ bucket.section = "main"
  /\ bucket.length = FiveHours \/ bucket.length \in SevenDays..LongestPlan

CodexGroup(bucket) == IF bucket.section = "main" THEN "codex-main" ELSE ""

CodexParses(raw, t) == CodexReset(raw, t) # Missing /\ CodexLength(raw) > 0

CodexWindow(raw, t) ==
  LET reset == CodexReset(raw, t)
  IN  [bucket |-> CodexBucket(raw), reset |-> reset, used |-> raw.used,
       lazy |-> LazyHint(raw.used, reset, CodexLength(raw), t),
       can |-> CodexCanActivate(CodexBucket(raw))]

(* ReadQuota and parseQuota, of an answer with some of these raw windows. *)
CodexReadQuota(raws, t) ==
  Observations({CodexWindow(raw, t) : raw \in {r \in raws : CodexParses(r, t)}})

CodexVerify(before, after) ==
  /\ ~after.lazy
  /\ RolledSince(before, after) \/ (before.used > 0 /\ after.used = 0)

-----------------------------------------------------------------------------
(* Antigravity: a window is named by its bucket; its length is data.       *)

AntigravityGroup(bucket) ==
  CASE bucket \in {"gemini-5h", "gemini-weekly"} -> "antigravity-gemini"
    [] bucket \in {"3p-5h", "3p-weekly"} -> "antigravity-third-party"
    [] OTHER -> ""

AntigravityCanActivate(bucket, length) ==
  AntigravityGroup(bucket) # "" /\ length \in {FiveHours, SevenDays}

(* A window with a field missing is skipped. *)
AntigravityParses(raw) ==
  raw.used # Missing /\ raw.reset # Missing /\ raw.length > 0

AntigravityWindow(raw, t) ==
  [bucket |-> raw.bucket, reset |-> raw.reset, used |-> raw.used,
   lazy |-> LazyHint(raw.used, raw.reset, raw.length, t),
   can |-> AntigravityCanActivate(raw.bucket, raw.length)]

(* ReadQuota, from whichever base URL answers first, and parse. *)
AntigravityReadQuota(raws, t) ==
  Observations({AntigravityWindow(raw, t) :
                  raw \in {r \in raws : AntigravityParses(r)}})

AntigravityVerify(before, after) == RolledSince(before, after)
=============================================================================
