----------------------------- MODULE TokenCache -----------------------------
(***************************************************************************)
(* Installation tokens (internal/github/auth.go): one cache entry, shared  *)
(* without a lock across lookup, deletion, mint and store by the dispatch  *)
(* and the sweeps of the reconciler, which all go on to use the token for  *)
(* a while.  It matters that it still works then: the stale sweep takes a  *)
(* token that GitHub refuses for an App that was uninstalled, and cancels  *)
(* the job (internal/reconciler/reconciler.go).                            *)
(*                                                                         *)
(* Times are what is left of a token, in ticks of a clock.                 *)
(***************************************************************************)
EXTENDS Integers

CONSTANTS
  Callers,  \* dispatches and sweeps in flight at a time
  Sweeps,   \* those of them that are stale sweeps
  Lifetime, \* of a token, expires_at less the time it was minted
  Margin,   \* by which an entry ends before its token
  Hold,     \* how long a caller may take with a token, the mint included
  TokenEnv  \* which events of the environment a run explores

(* Nothing in the code bounds a sweep's loop over its jobs: that it is     *)
(* over within the margin is an assumption on their number.                *)
ASSUME TokenAssumption ==
  /\ Lifetime \in Nat /\ Margin \in Nat /\ Hold \in Nat
  /\ Hold <= Margin /\ Hold < Lifetime
  /\ Sweeps \subseteq Callers

VARIABLES
  cached,    \* what is left of the token of the entry, NoEntry without one
  step,      \* of InstallationToken, or what follows it
  left,      \* what is left of the token a caller has
  spent,     \* how long the caller has been at it
  revoked,   \* the App was uninstalled
  cancelled  \* a sweep took a refusal for that

tokenVars == <<cached, step, left, spent, revoked, cancelled>>

NoEntry == -1
Steps == {"idle", "stale", "fetch", "receive", "store", "using"}

TokensInit ==
  /\ cached = NoEntry
  /\ step = [c \in Callers |-> "idle"]
  /\ left = [c \in Callers |-> 0] /\ spent = [c \in Callers |-> 0]
  /\ revoked = FALSE /\ cancelled = FALSE

StepsTo(c, s) == step' = [step EXCEPT ![c] = s]
Finished(c)   == /\ StepsTo(c, "idle")
                 /\ left' = [left EXCEPT ![c] = 0] /\ spent' = [spent EXCEPT ![c] = 0]

(* Mutant: an entry is good for as long as its token is.                   *)
FreshUntilExpiry == cached > 0

(* The entry ends Margin before its token.                                 *)
Fresh == cached > Margin

LoadToken(c) ==
  /\ step[c] = "idle"
  /\ \/ /\ Fresh
        /\ StepsTo(c, "using") /\ left' = [left EXCEPT ![c] = cached]
     \/ ~Fresh /\ cached # NoEntry /\ StepsTo(c, "stale") /\ UNCHANGED left
     \/ cached = NoEntry /\ StepsTo(c, "fetch") /\ UNCHANGED left
  /\ UNCHANGED <<cached, spent, revoked, cancelled>>

(* Delete takes whatever entry is there by now.                            *)
DropEntry(c) ==
  /\ step[c] = "stale" /\ StepsTo(c, "fetch")
  /\ cached' = NoEntry
  /\ UNCHANGED <<left, spent, revoked, cancelled>>

(* GitHub mints a token, unless the App is gone; the answer takes time.    *)
Mint(c) ==
  /\ step[c] = "fetch"
  /\ \/ /\ ~revoked
        /\ StepsTo(c, "receive") /\ left' = [left EXCEPT ![c] = Lifetime]
        /\ UNCHANGED spent
     \/ /\ revoked \/ "apiError" \in TokenEnv
        /\ Finished(c)
  /\ UNCHANGED <<cached, revoked, cancelled>>

(* One that has expired on the way is an error.                            *)
ReceiveToken(c) ==
  /\ step[c] = "receive"
  /\ IF left[c] > 0 THEN StepsTo(c, "store") /\ UNCHANGED <<left, spent>> ELSE Finished(c)
  /\ UNCHANGED <<cached, revoked, cancelled>>

(* The last of several concurrent mints is the one that stays.             *)
StoreToken(c) ==
  /\ step[c] = "store" /\ StepsTo(c, "using")
  /\ cached' = left[c]
  /\ UNCHANGED <<left, spent, revoked, cancelled>>

Refused(c) == left[c] = 0 \/ revoked

(* Mutant: any error is taken for a refusal, a spent quota included.       *)
UseTokenAnyError(c) ==
  /\ step[c] = "using"
  /\ cancelled' = (cancelled \/ (c \in Sweeps /\ (Refused(c) \/ "apiError" \in TokenEnv)))
  /\ UNCHANGED <<cached, step, left, spent, revoked>>

(* A call with the token, one of several: refused (AuthFailed), the sweep  *)
(* cancels the job it asked about; other errors leave the job alone.       *)
UseToken(c) ==
  /\ step[c] = "using"
  /\ cancelled' = (cancelled \/ (c \in Sweeps /\ Refused(c)))
  /\ UNCHANGED <<cached, step, left, spent, revoked>>

Done(c) ==
  /\ step[c] = "using" /\ Finished(c)
  /\ UNCHANGED <<cached, revoked, cancelled>>

----------------------------------------------------------------------------
(* The clock.  No caller takes longer than Hold.                           *)
Shorter(n) == IF n > 0 THEN n - 1 ELSE n

TokensAge ==
  /\ \A c \in Callers : step[c] # "idle" => spent[c] < Hold
  /\ cached' = Shorter(cached)
  /\ left' = [c \in Callers |-> Shorter(left[c])]
  /\ spent' = [c \in Callers |-> IF step[c] = "idle" THEN spent[c] ELSE spent[c] + 1]
  /\ UNCHANGED <<step, revoked, cancelled>>

Revoke ==
  /\ "uninstall" \in TokenEnv /\ revoked' = TRUE
  /\ UNCHANGED <<cached, step, left, spent, cancelled>>

TokensNext ==
  \/ \E c \in Callers : \/ LoadToken(c) \/ DropEntry(c) \/ Mint(c) \/ ReceiveToken(c)
                        \/ StoreToken(c) \/ UseToken(c) \/ Done(c)
  \/ TokensAge \/ Revoke

TokensSpec == TokensInit /\ [][TokensNext]_tokenVars
----------------------------------------------------------------------------
(* What is left of a token is what it was minted with at most, and no      *)
(* caller is at it for longer than it may.                                 *)
TokensTypeOK ==
  /\ cached \in {NoEntry} \cup 0..Lifetime
  /\ step \in [Callers -> Steps]
  /\ left \in [Callers -> 0..Lifetime] /\ spent \in [Callers -> 0..Hold]
  /\ revoked \in BOOLEAN /\ cancelled \in BOOLEAN

(* Whatever the interleaving of lookups, deletions and mints, and however  *)
(* late a mint is stored, no caller is left with a token that has expired. *)
UsedBeforeExpiry == \A c \in Callers : step[c] = "using" => left[c] > 0

(* So the stale sweep cancels no job unless the App is gone: a refused     *)
(* token means what the sweep takes it to mean.                            *)
CancelsOnlyWhenGone == cancelled => revoked
=============================================================================
