------------------------------ MODULE Referral ------------------------------
(***************************************************************************)
(* One invitation and its reward (referral.service.ts): the first          *)
(* completed payment of the invited user qualifies it, an administrator    *)
(* reviews it or it cools down, the scan of every 15 minutes or an         *)
(* approval pays the reward out, and a refund of that payment reverses it. *)
(*                                                                         *)
(* The payment service calls in with a transaction it completed or         *)
(* refunded and swallows errors, so a call that dies is not repeated. The  *)
(* programme stays enabled. The other invitations of the inviter are       *)
(* abstract: they may or may not have used up the month's rewards.         *)
(***************************************************************************)
EXTENDS Naturals

CONSTANTS
    Txns,         \* payment transactions of the invited user
    Large,        \* those that reach settings.referralMinimumPaidCents
    AutoApprove,  \* settings.referralAutoApprove
    Reward,       \* settings.inviteRewardCredits
    Procs,        \* calls in progress at once
    MaxBalance,   \* bound: what the inviter has from elsewhere
    MaxDeaths,    \* bound: calls that die
    None

ASSUME ReferralAssumption ==
    /\ Large \subseteq Txns /\ None \notin Txns
    /\ AutoApprove \in BOOLEAN /\ Reward \in Nat \ {0} /\ {MaxBalance, MaxDeaths} \subseteq Nat

VARIABLES
    invite,   \* the row of Invitation
    txns,     \* the transactions; REDUCED: COMPLETED, refunded below the minimum
    first,    \* the transaction that completed first
    ledger,   \* the inviter's entries under the two keys of the invitation
    balance,  \* the inviter's account
    proc,
    deaths

vars == <<invite, txns, first, ledger, balance, proc, deaths>>

Payable == {"COOLING", "APPROVED"}
Idle    == [pc |-> "idle", txn |-> None, bypass |-> FALSE, due |-> FALSE]

Init ==
    /\ invite \in [status : {"REGISTERED"}, flagged : BOOLEAN, txn : {None}, reward : {0},
                   payable : {"unset"}, rewarded : {FALSE}, approved : {FALSE}]
    /\ txns = [t \in Txns |-> "PENDING"]
    /\ first = None
    /\ ledger = [reward |-> 0, reversal |-> 0]
    /\ balance \in 0..MaxBalance
    /\ proc = [p \in Procs |-> Idle]
    /\ deaths = 0

At(p, label)   == proc[p].pc = label
Goto(p, label) == proc' = [proc EXCEPT ![p].pc = label]
Return(p)      == proc' = [proc EXCEPT ![p] = Idle]
Begin(p, t, label) == proc' = [proc EXCEPT ![p] = [Idle EXCEPT !.pc = label, !.txn = t]]
SetStatus(status) == invite' = [invite EXCEPT !.status = status]

moneyVars == <<ledger, balance>>
callVars  == <<txns, first>>

(***************************************************************************)
(* onPaymentCompleted().                                                   *)
(***************************************************************************)
Complete(p, t) ==
    /\ At(p, "idle") /\ txns[t] = "PENDING"
    /\ txns' = [txns EXCEPT ![t] = "COMPLETED"]
    /\ first' = IF first = None THEN t ELSE first
    /\ Begin(p, t, "completed")
    /\ UNCHANGED <<invite, moneyVars, deaths>>

Assess(p) ==
    /\ At(p, "completed")
    /\ LET t == proc[p].txn IN
       IF invite.status # "REGISTERED" THEN Return(p)
       ELSE Goto(p, IF first = t /\ t \in Large THEN "qualify" ELSE "disqualify")
    /\ UNCHANGED <<invite, callVars, moneyVars, deaths>>

\* rejectUnqualified writes by id, whatever the row has become.
Disqualify(p) ==
    /\ At(p, "disqualify")
    /\ SetStatus("REJECTED")
    /\ Return(p)
    /\ UNCHANGED <<callVars, moneyVars, deaths>>

\* Mutant of QualifiedAs: the risk flags are only recorded.
QualifiedUnflagged == IF AutoApprove THEN "COOLING" ELSE "REVIEW_REQUIRED"

QualifiedAs == IF invite.flagged \/ ~AutoApprove THEN "REVIEW_REQUIRED" ELSE "COOLING"

Qualify(p) ==
    /\ At(p, "qualify")
    /\ IF invite.status = "REGISTERED" /\ invite.txn = None
       THEN invite' = [invite EXCEPT !.status = QualifiedAs, !.txn = proc[p].txn,
                                     !.reward = Reward, !.payable = "later"]
       ELSE UNCHANGED invite
    /\ Return(p)
    /\ UNCHANGED <<callVars, moneyVars, deaths>>

Cooled ==
    /\ invite.payable = "later"
    /\ invite' = [invite EXCEPT !.payable = "now"]
    /\ UNCHANGED <<callVars, moneyVars, proc, deaths>>

(***************************************************************************)
(* credits.mutate of the inviter: an entry whose key exists is returned.   *)
(***************************************************************************)
\* Mutant of Known: an entry is never found again.
KnownNever(k) == FALSE

Known(k) == ledger[k] > 0

Mutate(k, next) ==
    IF Known(k) THEN UNCHANGED moneyVars
    ELSE ledger' = [ledger EXCEPT ![k] = @ + 1] /\ balance' = next

\* The inviter uses what the account holds.
Use ==
    /\ balance >= Reward
    /\ balance' = balance - Reward
    /\ UNCHANGED <<invite, callVars, ledger, proc, deaths>>

(***************************************************************************)
(* handleRefund(): the transaction has gone below the minimum.             *)
(***************************************************************************)
Refund(p, t) ==
    /\ At(p, "idle") /\ txns[t] \in {"COMPLETED", "REDUCED"}
    /\ \E status \in {"REDUCED", "REFUNDED"} \ {txns[t]} : txns' = [txns EXCEPT ![t] = status]
    /\ Begin(p, t, "refunded")
    /\ UNCHANGED <<invite, first, moneyVars, deaths>>

ReadRefunded(p) ==
    /\ At(p, "refunded")
    /\ IF invite.txn # proc[p].txn THEN Return(p)
       ELSE Goto(p, IF invite.status = "REWARDED" THEN "take back" ELSE "reverse")
    /\ UNCHANGED <<invite, callVars, moneyVars, deaths>>

\* Mutant of Affordable: the account is not asked.
AffordableAlways == TRUE

Affordable == balance >= invite.reward

TakeBack(p) ==
    /\ At(p, "take back")
    /\ \/ /\ Known("reversal") \/ Affordable
          /\ Mutate("reversal", balance - invite.reward)
          /\ Goto(p, "reverse")
       \* the balance is too small, or the account was changed at the same time
       \/ Goto(p, "review") /\ UNCHANGED moneyVars
    /\ UNCHANGED <<invite, callVars, deaths>>

Reverse(p) ==
    /\ At(p, "reverse")
    /\ SetStatus("REVERSED")
    /\ Return(p)
    /\ UNCHANGED <<callVars, moneyVars, deaths>>

ToReview(p) ==
    /\ At(p, "review")
    /\ SetStatus("REVIEW_REQUIRED")
    /\ Return(p)
    /\ UNCHANGED <<callVars, moneyVars, deaths>>

(***************************************************************************)
(* approve() and reject() of an administrator.                             *)
(***************************************************************************)
ReadApproved(p, releaseNow) ==
    /\ At(p, "idle")
    /\ invite.status \in {"REVIEW_REQUIRED", "COOLING", "APPROVED"}
    /\ proc' = [proc EXCEPT ![p] = [Idle EXCEPT !.pc = "approve", !.bypass = releaseNow,
                                                !.due = releaseNow \/ invite.payable # "later"]]
    /\ UNCHANGED <<invite, callVars, moneyVars, deaths>>

\* payableAt is written as it was read: it may have passed meanwhile, or undo
\* the release of another approval.
Approve(p) ==
    /\ At(p, "approve")
    /\ \E payable \in IF proc[p].due THEN {"now"} ELSE {"later", invite.payable} :
          /\ invite' = [invite EXCEPT !.status = "APPROVED", !.approved = TRUE, !.payable = payable]
          /\ IF payable = "now"
             THEN proc' = [proc EXCEPT ![p] = [@ EXCEPT !.pc = "load", !.due = FALSE]]
             ELSE Return(p)
    /\ UNCHANGED <<callVars, moneyVars, deaths>>

Reject ==
    /\ invite.status \in {"REGISTERED", "COOLING", "REVIEW_REQUIRED", "APPROVED"}
    /\ SetStatus("REJECTED")
    /\ UNCHANGED <<callVars, moneyVars, proc, deaths>>

(***************************************************************************)
(* processDue() and payout().                                              *)
(***************************************************************************)
Due == invite.status \in Payable /\ invite.payable = "now"

\* Mutant of Listed: the scan leaves an approved invitation to its administrator.
ListedCooling == invite.status = "COOLING" /\ invite.payable = "now"

Listed == Due

Scan(p) ==
    /\ At(p, "idle") /\ Listed
    /\ Goto(p, "load")
    /\ UNCHANGED <<invite, callVars, moneyVars, deaths>>

\* The row is read and the rewards of the month are counted; both may be old
\* when the reward is credited.
Load(p) ==
    /\ At(p, "load")
    /\ IF ~Due THEN Return(p)
       ELSE \E overLimit \in BOOLEAN :
               Goto(p, IF ~proc[p].bypass /\ overLimit THEN "review" ELSE "credit")
    /\ UNCHANGED <<invite, callVars, moneyVars, deaths>>

Credit(p) ==
    /\ At(p, "credit")
    /\ Mutate("reward", balance + invite.reward)
    /\ Goto(p, "mark")
    /\ UNCHANGED <<invite, callVars, deaths>>

MarkRewarded(p) ==
    /\ At(p, "mark")
    /\ IF invite.status \in Payable /\ ~invite.rewarded
       THEN invite' = [invite EXCEPT !.status = "REWARDED", !.rewarded = TRUE]
       ELSE UNCHANGED invite
    /\ Return(p)
    /\ UNCHANGED <<callVars, moneyVars, deaths>>

\* The process ends, or the database or a conflicting write ends the call.
Dies(p) ==
    /\ ~At(p, "idle") /\ deaths < MaxDeaths
    /\ Return(p)
    /\ deaths' = deaths + 1
    /\ UNCHANGED <<invite, callVars, moneyVars>>

Step(p) ==
    \/ Assess(p) \/ Disqualify(p) \/ Qualify(p)
    \/ ReadRefunded(p) \/ TakeBack(p) \/ Reverse(p) \/ ToReview(p)
    \/ Approve(p) \/ Load(p) \/ Credit(p) \/ MarkRewarded(p)

Next ==
    \/ \E p \in Procs :
          \/ Step(p) \/ Dies(p) \/ Scan(p)
          \/ \E t \in Txns : Complete(p, t) \/ Refund(p, t)
          \/ \E releaseNow \in BOOLEAN : ReadApproved(p, releaseNow)
    \/ Cooled \/ Reject \/ Use

Spec == Init /\ [][Next]_vars

\* A call goes on, and the scan comes back to what is due.
FairSpec ==
    /\ Spec
    /\ \A p \in Procs : WF_vars(Step(p))
    /\ SF_vars(\E p \in Procs : Scan(p))

-----------------------------------------------------------------------------
Labels == {"idle", "completed", "disqualify", "qualify", "refunded", "take back", "reverse",
           "review", "approve", "load", "credit", "mark"}

\* The row has the shape of its schema and the inviter's account is never
\* overdrawn, also when a reward is taken back that was used meanwhile.
TypeOK ==
    /\ invite \in [status : {"REGISTERED", "COOLING", "REVIEW_REQUIRED", "APPROVED", "REWARDED",
                             "REJECTED", "REVERSED"},
                   flagged : BOOLEAN, txn : Txns \cup {None}, reward : {0, Reward},
                   payable : {"unset", "later", "now"}, rewarded : BOOLEAN, approved : BOOLEAN]
    /\ txns \in [Txns -> {"PENDING", "COMPLETED", "REDUCED", "REFUNDED"}]
    /\ first \in Txns \cup {None}
    /\ ledger \in [{"reward", "reversal"} -> Nat] /\ balance \in Nat
    /\ proc \in [Procs -> [pc : Labels, txn : Txns \cup {None}, bypass : BOOLEAN, due : BOOLEAN]]

\* However many scans and approvals pay the invitation out at the same time, and
\* whichever of them dies between the credit and the mark, the reward is credited
\* once, for the first payment, which reached the minimum; it is taken back at
\* most once and only after it was credited; what is marked was credited.
RewardIsEarned ==
    /\ ledger.reward <= 1 /\ ledger.reversal <= ledger.reward
    /\ invite.status = "REWARDED" => ledger.reward = 1
    /\ ledger.reward = 1 => invite.txn = first /\ first \in Large

\* An invitation with a risk flag is credited only after an administrator
\* approved it, whatever the scan and the reviews do in between.
FlaggedIsReviewed == invite.flagged /\ ledger.reward > 0 => invite.approved

Open == Due /\ ~invite.rewarded

\* An invitation that is due and was not rewarded yet is decided, also when the
\* call that pays it out dies after the credit.
DueIsDecided == Open ~> ~Open
=============================================================================
