--------------------------- MODULE ReferralProofs ---------------------------
(***************************************************************************)
(* Proofs about Referral, for any number of calls and payments and any     *)
(* setting: the type invariant with an account that is never overdrawn,    *)
(* that a reward is credited once and for the right payment, and that a    *)
(* flagged invitation is credited only after its review.                   *)
(***************************************************************************)
EXTENDS Referral, TLAPS

\* What a status of the row says of its other fields.
RowOK ==
    /\ invite.status \in {"COOLING", "APPROVED", "REVIEW_REQUIRED", "REWARDED"} => invite.txn # None
    /\ invite.txn # None => invite.txn = first /\ first \in Large
    /\ invite.status = "COOLING" => ~invite.flagged
    /\ invite.status = "APPROVED" => invite.approved

\* What a call knows from the statements before, whatever happened since.
CallOK ==
    \A p \in Procs :
        /\ At(p, "completed") => proc[p].txn # None /\ first # None
        /\ At(p, "qualify") => proc[p].txn = first /\ first \in Large
        /\ proc[p].pc \in {"approve", "credit", "mark", "take back", "review"} => invite.txn # None
        /\ At(p, "credit") => (invite.flagged => invite.approved)
        /\ proc[p].pc \in {"mark", "take back"} => ledger.reward = 1

Inv == TypeOK /\ RowOK /\ CallOK /\ RewardIsEarned /\ FlaggedIsReviewed

-----------------------------------------------------------------------------
\* The row is written field by field; these are the rows the steps write.
InviteType ==
    [status : {"REGISTERED", "COOLING", "REVIEW_REQUIRED", "APPROVED", "REWARDED", "REJECTED",
               "REVERSED"},
     flagged : BOOLEAN, txn : Txns \cup {None}, reward : {0, Reward},
     payable : {"unset", "later", "now"}, rewarded : BOOLEAN, approved : BOOLEAN]

ProcType == [pc : Labels, txn : Txns \cup {None}, bypass : BOOLEAN, due : BOOLEAN]

LEMMA TypeParts ==
    TypeOK <=> /\ invite \in InviteType
               /\ txns \in [Txns -> {"PENDING", "COMPLETED", "REDUCED", "REFUNDED"}]
               /\ first \in Txns \cup {None}
               /\ ledger \in [{"reward", "reversal"} -> Nat] /\ balance \in Nat
               /\ proc \in [Procs -> ProcType]
BY DEF TypeOK, InviteType, ProcType

LEMMA InitInv == Init => Inv
<1>. SUFFICES ASSUME Init PROVE Inv
  OBVIOUS
<1>. USE ReferralAssumption DEF Init
<1>1. invite \in InviteType /\ invite.status = "REGISTERED" /\ invite.txn = None
  BY DEF InviteType
<1>2. ledger \in [{"reward", "reversal"} -> Nat] /\ ledger.reward = 0 /\ ledger.reversal = 0
  OBVIOUS
<1>3. proc \in [Procs -> ProcType] /\ \A p \in Procs : proc[p].pc = "idle"
  BY DEF Idle, ProcType, Labels
<1>4. balance \in Nat
  OBVIOUS
<1>5. TypeOK
  BY <1>1, <1>2, <1>3, <1>4, TypeParts
<1>6. RowOK /\ CallOK
  BY <1>1, <1>3 DEF RowOK, CallOK, At
<1>7. RewardIsEarned /\ FlaggedIsReviewed
  BY <1>1, <1>2 DEF RewardIsEarned, FlaggedIsReviewed
<1>. QED BY <1>5, <1>6, <1>7 DEF Inv

\* What is true of one call and its local state.
Knows(local) ==
    /\ local.pc = "completed" => local.txn # None /\ first # None
    /\ local.pc = "qualify" => local.txn = first /\ first \in Large
    /\ local.pc \in {"approve", "credit", "mark", "take back", "review"} => invite.txn # None
    /\ local.pc = "credit" => (invite.flagged => invite.approved)
    /\ local.pc \in {"mark", "take back"} => ledger.reward = 1

LEMMA CallKnows == CallOK <=> \A p \in Procs : Knows(proc[p])
BY DEF CallOK, Knows, At

\* No step makes what a call knows untrue: a payment stays the first, an
\* invitation stays qualified, flagged or approved, a reward stays credited.
Keeps ==
    /\ first # None => first' = first
    /\ invite.txn # None => invite'.txn # None
    /\ invite'.flagged = invite.flagged
    /\ invite.approved => invite'.approved
    /\ ledger.reward = 1 => ledger'.reward = 1

LEMMA SameCalls ==
    ASSUME CallOK, Keeps, UNCHANGED proc
    PROVE  CallOK'
<1>1. \A q \in Procs : Knows(proc[q])
  BY CallKnows
<1>2. \A q \in Procs : Knows(proc[q])'
  BY <1>1, ReferralAssumption DEF Keeps, Knows, ReferralAssumption
<1>. QED BY <1>2 DEF CallOK, Knows, At

LEMMA OtherCalls ==
    ASSUME TypeOK, CallOK, Keeps, NEW p \in Procs, NEW local \in ProcType,
           proc' = [proc EXCEPT ![p] = local], Knows(local)'
    PROVE  CallOK' /\ proc' \in [Procs -> ProcType]
<1>1. proc \in [Procs -> ProcType]
  BY TypeParts
<1>2. \A q \in Procs : proc'[q] = IF q = p THEN local ELSE proc[q]
  BY <1>1
<1>3. \A q \in Procs : Knows(proc[q])
  BY CallKnows
<1>4. \A q \in Procs : Knows(proc[q])'
  <2>. TAKE q \in Procs
  <2>1. CASE q = p
    BY <1>2, <2>1 DEF Knows
  <2>2. CASE q # p
    <3>1. proc'[q] = proc[q]
      BY <1>2, <2>2
    <3>. QED BY <1>3, <3>1, ReferralAssumption DEF Keeps, Knows, ReferralAssumption
  <2>. QED BY <2>1, <2>2
<1>5. CallOK'
  BY <1>4 DEF CallOK, Knows, At
<1>. QED BY <1>1, <1>5

\* A step of one call that leaves the row, the payments and the money alone.
LEMMA LocalStep ==
    ASSUME Inv, NEW p \in Procs, NEW local \in ProcType,
           proc' = [proc EXCEPT ![p] = local],
           UNCHANGED <<invite, callVars, moneyVars>>, Knows(local)
    PROVE  Inv'
<1>. USE DEF Inv, callVars, moneyVars
<1>1. Keeps /\ Knows(local)'
  BY DEF Keeps, Knows
<1>2. CallOK' /\ proc' \in [Procs -> ProcType]
  BY <1>1, OtherCalls
<1>3. TypeOK'
  BY <1>2, TypeParts DEF TypeOK, ProcType
<1>4. RowOK' /\ RewardIsEarned' /\ FlaggedIsReviewed'
  BY DEF RowOK, RewardIsEarned, FlaggedIsReviewed
<1>. QED BY <1>2, <1>3, <1>4

\* A step that writes the row, with or without the state of a call.
LEMMA RowStep ==
    ASSUME Inv, CallOK', proc' \in [Procs -> ProcType], Keeps,
           UNCHANGED <<callVars, moneyVars>>,
           invite' \in InviteType, RowOK',
           invite'.status = "REWARDED" => ledger.reward = 1
    PROVE  Inv'
<1>. USE DEF Inv, callVars, moneyVars
<1>1. TypeOK'
  BY TypeParts DEF TypeOK, InviteType, ProcType
<1>2. RewardIsEarned'
  BY DEF RewardIsEarned, RowOK, Keeps
<1>3. FlaggedIsReviewed'
  BY DEF FlaggedIsReviewed, Keeps
<1>. QED BY <1>1, <1>2, <1>3

\* The states a call goes to have their type.
LEMMA LocalTypes ==
    ASSUME TypeOK, NEW p \in Procs
    PROVE  /\ proc[p] \in ProcType /\ Idle \in ProcType
           /\ \A label \in Labels : /\ [proc[p] EXCEPT !.pc = label] \in ProcType
                                    /\ [proc[p] EXCEPT !.pc = label].pc = label
                                    /\ [proc[p] EXCEPT !.pc = label].txn = proc[p].txn
<1>1. proc[p] \in ProcType
  BY TypeParts
<1>2. Idle \in ProcType
  BY DEF Idle, ProcType, Labels
<1>3. \A label \in Labels : /\ [proc[p] EXCEPT !.pc = label] \in ProcType
                            /\ [proc[p] EXCEPT !.pc = label].pc = label
                            /\ [proc[p] EXCEPT !.pc = label].txn = proc[p].txn
  BY <1>1 DEF ProcType
<1>. QED BY <1>1, <1>2, <1>3

LEMMA GotoIs ==
    ASSUME NEW p \in Procs, NEW label, Goto(p, label)
    PROVE  proc' = [proc EXCEPT ![p] = [proc[p] EXCEPT !.pc = label]]
BY DEF Goto

\* The state a call goes on with.
LEMMA GoesTo ==
    ASSUME TypeOK, NEW p \in Procs, NEW label \in Labels, Goto(p, label)
    PROVE  \E local \in ProcType :
              /\ proc' = [proc EXCEPT ![p] = local]
              /\ local.pc = label /\ local.txn = proc[p].txn
<1>1. [proc[p] EXCEPT !.pc = label] \in ProcType
  BY LocalTypes
<1>. QED BY <1>1, GotoIs, LocalTypes

\* A call that ends, and one that goes on without writing anything.
LEMMA ReturnStep ==
    ASSUME Inv, NEW p \in Procs, Return(p), UNCHANGED <<invite, callVars, moneyVars>>
    PROVE  Inv'
<1>1. Idle \in ProcType /\ Knows(Idle)
  BY LocalTypes DEF Inv, Idle, Knows
<1>. QED BY <1>1, LocalStep DEF Return

LEMMA GotoStep ==
    ASSUME Inv, NEW p \in Procs, NEW label \in Labels, Goto(p, label),
           UNCHANGED <<invite, callVars, moneyVars>>,
           Knows([proc[p] EXCEPT !.pc = label])
    PROVE  Inv'
<1>1. [proc[p] EXCEPT !.pc = label] \in ProcType
  BY LocalTypes DEF Inv
<1>. QED BY <1>1, GotoIs, LocalStep

-----------------------------------------------------------------------------
(***************************************************************************)
(* The calls.                                                              *)
(***************************************************************************)
LEMMA CompleteInv == ASSUME Inv, NEW p \in Procs, NEW t \in Txns, Complete(p, t) PROVE Inv'
<1>. DEFINE local == [Idle EXCEPT !.pc = "completed", !.txn = t]
<1>. USE ReferralAssumption DEF Inv
<1>1. /\ proc' = [proc EXCEPT ![p] = local] /\ UNCHANGED <<invite, moneyVars>>
      /\ txns' = [txns EXCEPT ![t] = "COMPLETED"]
      /\ first' = IF first = None THEN t ELSE first
  BY DEF Complete, Begin
<1>2. local \in ProcType /\ local.pc = "completed" /\ local.txn = t
  BY DEF Idle, ProcType, Labels
<1>3. Keeps /\ Knows(local)'
  BY <1>1, <1>2 DEF Keeps, Knows, moneyVars
<1>4. CallOK' /\ proc' \in [Procs -> ProcType]
  BY <1>1, <1>2, <1>3, OtherCalls
<1>5. txns' \in [Txns -> {"PENDING", "COMPLETED", "REDUCED", "REFUNDED"}] /\ first' \in Txns \cup {None}
  BY <1>1, TypeParts
<1>6. TypeOK'
  BY <1>1, <1>4, <1>5, TypeParts DEF moneyVars, TypeOK, InviteType, ProcType
<1>7. invite.txn # None => first' = first
  BY <1>3 DEF Keeps, RowOK
<1>8. RowOK' /\ RewardIsEarned' /\ FlaggedIsReviewed'
  BY <1>1, <1>7 DEF RowOK, RewardIsEarned, FlaggedIsReviewed, moneyVars
<1>. QED BY <1>4, <1>6, <1>8

LEMMA AssessInv == ASSUME Inv, NEW p \in Procs, Assess(p) PROVE Inv'
<1>. USE DEF Inv
<1>1. UNCHANGED <<invite, callVars, moneyVars>> /\ At(p, "completed")
  BY DEF Assess
<1>2. CASE invite.status # "REGISTERED"
  BY <1>1, <1>2, ReturnStep DEF Assess
<1>3. CASE invite.status = "REGISTERED"
  <2>1. PICK label \in {"qualify", "disqualify"} :
            /\ Goto(p, label)
            /\ label = "qualify" => first = proc[p].txn /\ proc[p].txn \in Large
    BY <1>3 DEF Assess
  <2>2. label \in Labels
    BY DEF Labels
  <2>3. Knows([proc[p] EXCEPT !.pc = label])
    BY <2>1, <2>2, LocalTypes DEF Knows
  <2>. QED BY <1>1, <2>1, <2>2, <2>3, GotoStep
<1>. QED BY <1>2, <1>3

\* The writes of a status by the id of the row.
LEMMA StatusStep ==
    ASSUME Inv, NEW status \in {"REJECTED", "REVERSED", "REVIEW_REQUIRED"},
           status = "REVIEW_REQUIRED" => invite.txn # None,
           SetStatus(status), UNCHANGED <<callVars, moneyVars>>,
           UNCHANGED proc \/ \E p \in Procs : Return(p)
    PROVE  Inv'
<1>. USE DEF Inv
<1>1. invite' = [invite EXCEPT !.status = status] /\ invite \in InviteType
  BY TypeParts DEF SetStatus
<1>2. /\ invite' \in InviteType /\ invite'.status = status /\ invite'.txn = invite.txn
      /\ invite'.flagged = invite.flagged /\ invite'.approved = invite.approved
  BY <1>1 DEF InviteType
<1>3. Keeps
  BY <1>2 DEF Keeps, callVars, moneyVars
<1>4. RowOK'
  BY <1>2 DEF RowOK, callVars
<1>5. CallOK' /\ proc' \in [Procs -> ProcType]
  <2>1. CASE UNCHANGED proc
    BY <1>3, <2>1, SameCalls, TypeParts
  <2>2. ASSUME NEW p \in Procs, Return(p) PROVE CallOK' /\ proc' \in [Procs -> ProcType]
    <3>1. Idle \in ProcType /\ Knows(Idle)'
      BY LocalTypes DEF Idle, Knows
    <3>. QED BY <1>3, <2>2, <3>1, OtherCalls DEF Return
  <2>. QED BY <2>1, <2>2
<1>. QED BY <1>2, <1>3, <1>4, <1>5, RowStep

LEMMA DisqualifyInv == ASSUME Inv, NEW p \in Procs, Disqualify(p) PROVE Inv'
BY StatusStep DEF Disqualify

LEMMA ReverseInv == ASSUME Inv, NEW p \in Procs, Reverse(p) PROVE Inv'
BY StatusStep DEF Reverse

LEMMA ToReviewInv == ASSUME Inv, NEW p \in Procs, ToReview(p) PROVE Inv'
<1>1. invite.txn # None
  BY DEF ToReview, At, Inv, CallOK
<1>. QED BY <1>1, StatusStep DEF ToReview

LEMMA RejectInv == ASSUME Inv, Reject PROVE Inv'
BY StatusStep DEF Reject

LEMMA QualifyInv == ASSUME Inv, NEW p \in Procs, Qualify(p) PROVE Inv'
<1>. USE ReferralAssumption DEF Inv
<1>1. UNCHANGED <<callVars, moneyVars>> /\ Return(p)
  BY DEF Qualify
<1>2. CASE ~(invite.status = "REGISTERED" /\ invite.txn = None)
  BY <1>1, <1>2, ReturnStep DEF Qualify
<1>3. CASE invite.status = "REGISTERED" /\ invite.txn = None
  <2>1. proc[p].txn = first /\ first \in Large /\ first # None
    BY DEF Qualify, CallOK
  <2>2. invite' = [invite EXCEPT !.status = QualifiedAs, !.txn = proc[p].txn,
                                 !.reward = Reward, !.payable = "later"]
    BY <1>3 DEF Qualify
  <2>3. invite \in InviteType /\ proc[p].txn \in Txns
    BY <2>1, TypeParts
  <2>4. QualifiedAs \in {"COOLING", "REVIEW_REQUIRED"} /\ (QualifiedAs = "COOLING" => ~invite.flagged)
    BY DEF QualifiedAs
  <2>5. /\ invite' \in InviteType /\ invite'.status = QualifiedAs /\ invite'.txn = first
        /\ invite'.flagged = invite.flagged /\ invite'.approved = invite.approved
    BY <2>1, <2>2, <2>3, <2>4 DEF InviteType
  <2>6. Keeps
    BY <1>1, <1>3, <2>5 DEF Keeps, callVars, moneyVars
  <2>7. RowOK'
    BY <1>1, <2>1, <2>4, <2>5 DEF RowOK, callVars
  <2>8. Idle \in ProcType /\ Knows(Idle)'
    BY LocalTypes DEF Idle, Knows
  <2>9. CallOK' /\ proc' \in [Procs -> ProcType]
    BY <1>1, <2>6, <2>8, OtherCalls DEF Return
  <2>. QED BY <1>1, <2>4, <2>5, <2>6, <2>7, <2>9, RowStep
<1>. QED BY <1>2, <1>3

LEMMA CooledInv == ASSUME Inv, Cooled PROVE Inv'
<1>. USE DEF Inv
<1>1. invite' = [invite EXCEPT !.payable = "now"] /\ UNCHANGED <<callVars, moneyVars, proc>>
  BY DEF Cooled
<1>2. invite \in InviteType
  BY TypeParts
<1>3. /\ invite' \in InviteType /\ invite'.status = invite.status /\ invite'.txn = invite.txn
      /\ invite'.flagged = invite.flagged /\ invite'.approved = invite.approved
  BY <1>1, <1>2 DEF InviteType
<1>4. Keeps /\ RowOK'
  BY <1>1, <1>3 DEF Keeps, RowOK, callVars, moneyVars
<1>5. CallOK' /\ proc' \in [Procs -> ProcType]
  BY <1>1, <1>4, SameCalls, TypeParts
<1>. QED BY <1>1, <1>3, <1>4, <1>5, RowStep DEF RewardIsEarned

\* A step that leaves the row and the payments alone and keeps what was credited.
LEMMA MoneyStep ==
    ASSUME Inv, CallOK', proc' \in [Procs -> ProcType], UNCHANGED <<invite, callVars>>,
           ledger' \in [{"reward", "reversal"} -> Nat], balance' \in Nat,
           ledger'.reward <= 1, ledger'.reversal <= ledger'.reward,
           ledger.reward = 1 => ledger'.reward = 1,
           ledger'.reward > 0 =>
               invite.txn = first /\ first \in Large /\ (invite.flagged => invite.approved)
    PROVE  Inv'
<1>. USE DEF Inv, callVars
<1>1. TypeOK'
  BY TypeParts DEF TypeOK, InviteType, ProcType
<1>2. RowOK'
  BY DEF RowOK
<1>3. RewardIsEarned' /\ FlaggedIsReviewed'
  BY DEF RewardIsEarned, FlaggedIsReviewed
<1>. QED BY <1>1, <1>2, <1>3

LEMMA UseInv == ASSUME Inv, Use PROVE Inv'
<1>. USE ReferralAssumption DEF Inv
<1>1. /\ balance >= Reward /\ balance' = balance - Reward
      /\ UNCHANGED <<invite, callVars, ledger, proc>>
  BY DEF Use
<1>2. balance \in Nat /\ Reward \in Nat
  BY TypeParts
<1>3. balance' \in Nat
  BY <1>1, <1>2
<1>4. Keeps
  BY <1>1 DEF Keeps, callVars
<1>5. CallOK' /\ proc' \in [Procs -> ProcType]
  BY <1>1, <1>4, SameCalls, TypeParts
<1>6. ledger' \in [{"reward", "reversal"} -> Nat]
  BY <1>1, TypeParts
<1>7. ledger.reward \in Nat
  BY TypeParts
<1>. QED BY <1>1, <1>3, <1>5, <1>6, <1>7, MoneyStep DEF RewardIsEarned, FlaggedIsReviewed

LEMMA RefundInv == ASSUME Inv, NEW p \in Procs, NEW t \in Txns, Refund(p, t) PROVE Inv'
<1>. DEFINE local == [Idle EXCEPT !.pc = "refunded", !.txn = t]
<1>. USE DEF Inv
<1>1. /\ proc' = [proc EXCEPT ![p] = local] /\ UNCHANGED <<invite, first, moneyVars>>
      /\ \E status \in {"REDUCED", "REFUNDED"} : txns' = [txns EXCEPT ![t] = status]
  BY DEF Refund, Begin
<1>2. local \in ProcType /\ local.pc = "refunded"
  BY DEF Idle, ProcType, Labels
<1>3. Keeps /\ Knows(local)'
  BY <1>1, <1>2 DEF Keeps, Knows, moneyVars
<1>4. CallOK' /\ proc' \in [Procs -> ProcType]
  BY <1>1, <1>2, <1>3, OtherCalls
<1>5. txns' \in [Txns -> {"PENDING", "COMPLETED", "REDUCED", "REFUNDED"}]
  BY <1>1, TypeParts
<1>6. TypeOK'
  BY <1>1, <1>4, <1>5, TypeParts DEF moneyVars, TypeOK, InviteType, ProcType
<1>7. RowOK' /\ RewardIsEarned' /\ FlaggedIsReviewed'
  BY <1>1 DEF RowOK, RewardIsEarned, FlaggedIsReviewed, moneyVars
<1>. QED BY <1>4, <1>6, <1>7

LEMMA ReadRefundedInv == ASSUME Inv, NEW p \in Procs, ReadRefunded(p) PROVE Inv'
<1>. USE ReferralAssumption DEF Inv
<1>1. UNCHANGED <<invite, callVars, moneyVars>>
  BY DEF ReadRefunded
<1>2. CASE invite.txn # proc[p].txn
  BY <1>1, <1>2, ReturnStep DEF ReadRefunded
<1>3. CASE invite.txn = proc[p].txn
  <2>1. PICK label \in {"take back", "reverse"} :
            Goto(p, label) /\ (label = "take back" => invite.status = "REWARDED")
    BY <1>3 DEF ReadRefunded
  <2>2. label = "take back" => ledger.reward = 1 /\ invite.txn # None
    BY <2>1 DEF RewardIsEarned, RowOK
  <2>3. label \in Labels
    BY DEF Labels
  <2>4. Knows([proc[p] EXCEPT !.pc = label])
    BY <2>1, <2>2, <2>3, LocalTypes DEF Knows
  <2>. QED BY <1>1, <2>1, <2>3, <2>4, GotoStep
<1>. QED BY <1>2, <1>3

LEMMA TakeBackInv == ASSUME Inv, NEW p \in Procs, TakeBack(p) PROVE Inv'
<1>. USE DEF Inv
<1>1. /\ UNCHANGED <<invite, callVars>> /\ ledger.reward = 1 /\ invite.txn # None
      /\ ledger \in [{"reward", "reversal"} -> Nat] /\ balance \in Nat /\ invite.reward \in Nat
  <2>1. ledger.reward = 1 /\ invite.txn # None
    BY DEF TakeBack, At, CallOK
  <2>2. invite.reward \in Nat
    BY TypeParts, ReferralAssumption DEF InviteType, ReferralAssumption
  <2>. QED BY <2>1, <2>2, TypeParts DEF TakeBack
<1>2. PICK label \in {"reverse", "review"} : Goto(p, label)
  BY DEF TakeBack
<1>3. /\ ledger' \in [{"reward", "reversal"} -> Nat] /\ balance' \in Nat
      /\ ledger'.reward = 1 /\ ledger'.reversal <= 1
  <2>1. CASE UNCHANGED moneyVars
    BY <1>1, <2>1 DEF moneyVars, RewardIsEarned
  <2>2. CASE ~Known("reversal") /\ Affordable /\ Mutate("reversal", balance - invite.reward)
    <3>1. ledger.reversal = 0
      BY <1>1, <2>2 DEF Known
    <3>2. ledger' = [ledger EXCEPT !["reversal"] = @ + 1] /\ balance' = balance - invite.reward
      BY <2>2 DEF Mutate
    <3>3. balance >= invite.reward
      BY <2>2 DEF Affordable
    <3>4. balance' \in Nat
      BY <1>1, <3>2, <3>3
    <3>5. ledger'.reward = 1 /\ ledger'.reversal = 1 /\ ledger' \in [{"reward", "reversal"} -> Nat]
      BY <1>1, <3>1, <3>2
    <3>. QED BY <3>4, <3>5
  <2>. QED BY <2>1, <2>2 DEF TakeBack, Mutate
<1>4. label \in Labels
  BY DEF Labels
<1>5. PICK local \in ProcType : proc' = [proc EXCEPT ![p] = local] /\ local.pc = label
  BY <1>2, <1>4, GoesTo
<1>6. Keeps /\ Knows(local)'
  BY <1>1, <1>3, <1>5 DEF Keeps, Knows, callVars
<1>7. CallOK' /\ proc' \in [Procs -> ProcType]
  BY <1>5, <1>6, OtherCalls
<1>. QED BY <1>1, <1>3, <1>7, MoneyStep DEF RewardIsEarned, FlaggedIsReviewed

LEMMA ReadApprovedInv ==
    ASSUME Inv, NEW p \in Procs, NEW releaseNow \in BOOLEAN, ReadApproved(p, releaseNow)
    PROVE  Inv'
<1>1. /\ UNCHANGED <<invite, callVars, moneyVars>> /\ invite.txn # None
      /\ proc' = [proc EXCEPT ![p] = [Idle EXCEPT !.pc = "approve", !.bypass = releaseNow,
                                                  !.due = releaseNow \/ invite.payable # "later"]]
  BY DEF ReadApproved, Inv, RowOK
<1>2. PICK due \in BOOLEAN : due = (releaseNow \/ invite.payable # "later")
  OBVIOUS
<1>3. proc' = [proc EXCEPT ![p] = [Idle EXCEPT !.pc = "approve", !.bypass = releaseNow, !.due = due]]
  BY <1>1, <1>2
<1>4. \A local \in ProcType :
        /\ [local EXCEPT !.pc = "approve", !.bypass = releaseNow, !.due = due] \in ProcType
        /\ [local EXCEPT !.pc = "approve", !.bypass = releaseNow, !.due = due].pc = "approve"
  BY DEF ProcType, Labels
<1>5. PICK local \in ProcType : proc' = [proc EXCEPT ![p] = local] /\ local.pc = "approve"
  BY <1>3, <1>4, LocalTypes DEF Inv
<1>6. Knows(local)
  BY <1>1, <1>5 DEF Knows
<1>. QED BY <1>1, <1>5, <1>6, LocalStep

LEMMA ApproveInv == ASSUME Inv, NEW p \in Procs, Approve(p) PROVE Inv'
<1>. USE DEF Inv
<1>1. UNCHANGED <<callVars, moneyVars>> /\ invite.txn # None
  BY DEF Approve, At, CallOK
<1>2. invite \in InviteType /\ proc[p] \in ProcType
  BY TypeParts, LocalTypes
<1>3. PICK payable \in {"later", "now", invite.payable} :
        /\ invite' = [invite EXCEPT !.status = "APPROVED", !.approved = TRUE, !.payable = payable]
        /\ \/ proc' = [proc EXCEPT ![p] = [@ EXCEPT !.pc = "load", !.due = FALSE]]
           \/ Return(p)
  BY DEF Approve
<1>4. /\ invite' \in InviteType /\ invite'.status = "APPROVED" /\ invite'.txn = invite.txn
      /\ invite'.flagged = invite.flagged /\ invite'.approved = TRUE
  BY <1>2, <1>3 DEF InviteType
<1>5. Keeps
  BY <1>1, <1>4 DEF Keeps, callVars, moneyVars
<1>6. RowOK'
  BY <1>1, <1>4 DEF RowOK, callVars
<1>7. CallOK' /\ proc' \in [Procs -> ProcType]
  <2>1. CASE Return(p)
    <3>1. Idle \in ProcType /\ Knows(Idle)'
      BY LocalTypes DEF Idle, Knows
    <3>. QED BY <1>5, <2>1, <3>1, OtherCalls DEF Return
  <2>2. CASE proc' = [proc EXCEPT ![p] = [@ EXCEPT !.pc = "load", !.due = FALSE]]
    <3>1. PICK local \in ProcType : proc' = [proc EXCEPT ![p] = local] /\ local.pc = "load"
      <4>1. /\ [proc[p] EXCEPT !.pc = "load", !.due = FALSE] \in ProcType
            /\ [proc[p] EXCEPT !.pc = "load", !.due = FALSE].pc = "load"
        BY <1>2 DEF ProcType, Labels
      <4>. QED BY <2>2, <4>1
    <3>2. Knows(local)'
      BY <3>1 DEF Knows
    <3>. QED BY <1>5, <3>1, <3>2, OtherCalls
  <2>. QED BY <1>3, <2>1, <2>2
<1>. QED BY <1>1, <1>4, <1>5, <1>6, <1>7, RowStep

LEMMA ScanInv == ASSUME Inv, NEW p \in Procs, Scan(p) PROVE Inv'
<1>1. "load" \in Labels
  BY DEF Labels
<1>2. Knows([proc[p] EXCEPT !.pc = "load"])
  BY <1>1, LocalTypes DEF Knows, Inv
<1>. QED BY <1>1, <1>2, GotoStep DEF Scan

LEMMA LoadInv == ASSUME Inv, NEW p \in Procs, Load(p) PROVE Inv'
<1>. USE DEF Inv
<1>1. UNCHANGED <<invite, callVars, moneyVars>>
  BY DEF Load
<1>2. CASE ~Due
  BY <1>1, <1>2, ReturnStep DEF Load
<1>3. CASE Due
  <2>1. PICK label \in {"review", "credit"} : Goto(p, label)
    BY <1>3 DEF Load
  <2>2. invite.txn # None /\ (invite.flagged => invite.approved)
    BY <1>3 DEF Due, Payable, RowOK
  <2>3. label \in Labels
    BY DEF Labels
  <2>4. Knows([proc[p] EXCEPT !.pc = label])
    BY <2>1, <2>2, <2>3, LocalTypes DEF Knows
  <2>. QED BY <1>1, <2>1, <2>3, <2>4, GotoStep
<1>. QED BY <1>2, <1>3

LEMMA CreditInv == ASSUME Inv, NEW p \in Procs, Credit(p) PROVE Inv'
<1>. USE DEF Inv
<1>1. /\ UNCHANGED <<invite, callVars>> /\ Goto(p, "mark")
      /\ invite.txn # None /\ (invite.flagged => invite.approved)
  BY DEF Credit, At, CallOK
<1>2. /\ ledger \in [{"reward", "reversal"} -> Nat] /\ balance \in Nat /\ invite.reward \in Nat
  BY TypeParts, ReferralAssumption DEF InviteType, ReferralAssumption
<1>3. /\ ledger' \in [{"reward", "reversal"} -> Nat] /\ balance' \in Nat
      /\ ledger'.reward = 1 /\ ledger'.reversal <= 1
  <2>1. CASE Known("reward")
    <3>1. ledger.reward = 1
      BY <1>2, <2>1 DEF Known, RewardIsEarned
    <3>2. UNCHANGED moneyVars
      BY <2>1 DEF Credit, Mutate
    <3>. QED BY <1>2, <3>1, <3>2 DEF moneyVars, RewardIsEarned
  <2>2. CASE ~Known("reward")
    <3>1. ledger.reward = 0 /\ ledger.reversal = 0
      BY <1>2, <2>2 DEF Known, RewardIsEarned
    <3>2. ledger' = [ledger EXCEPT !["reward"] = @ + 1] /\ balance' = balance + invite.reward
      BY <2>2 DEF Credit, Mutate
    <3>3. balance' \in Nat
      BY <1>2, <3>2
    <3>4. ledger'.reward = 1 /\ ledger'.reversal = 0 /\ ledger' \in [{"reward", "reversal"} -> Nat]
      BY <1>2, <3>1, <3>2
    <3>. QED BY <3>3, <3>4
  <2>. QED BY <2>1, <2>2
<1>4. Keeps
  BY <1>1, <1>3 DEF Keeps, callVars
<1>5. "mark" \in Labels
  BY DEF Labels
<1>6. PICK local \in ProcType : proc' = [proc EXCEPT ![p] = local] /\ local.pc = "mark"
  BY <1>1, <1>5, GoesTo
<1>7. Knows(local)'
  BY <1>1, <1>3, <1>6 DEF Knows, callVars
<1>8. CallOK' /\ proc' \in [Procs -> ProcType]
  BY <1>4, <1>6, <1>7, OtherCalls
<1>9. invite.txn = first /\ first \in Large
  BY <1>1 DEF RowOK
<1>. QED BY <1>1, <1>3, <1>8, <1>9, MoneyStep

LEMMA MarkRewardedInv == ASSUME Inv, NEW p \in Procs, MarkRewarded(p) PROVE Inv'
<1>. USE DEF Inv
<1>1. UNCHANGED <<callVars, moneyVars>> /\ Return(p) /\ ledger.reward = 1
  BY DEF MarkRewarded, At, CallOK
<1>2. CASE UNCHANGED invite
  BY <1>1, <1>2, ReturnStep
<1>3. CASE /\ invite.status \in Payable
           /\ invite' = [invite EXCEPT !.status = "REWARDED", !.rewarded = TRUE]
  <2>1. invite \in InviteType
    BY TypeParts
  <2>2. /\ invite' \in InviteType /\ invite'.status = "REWARDED" /\ invite'.txn = invite.txn
        /\ invite'.flagged = invite.flagged /\ invite'.approved = invite.approved
    BY <1>3, <2>1 DEF InviteType
  <2>3. Keeps
    BY <1>1, <2>2 DEF Keeps, callVars, moneyVars
  <2>4. RowOK'
    BY <1>1, <1>3, <2>2 DEF RowOK, callVars, Payable
  <2>5. Idle \in ProcType /\ Knows(Idle)'
    BY LocalTypes DEF Idle, Knows
  <2>6. CallOK' /\ proc' \in [Procs -> ProcType]
    BY <1>1, <2>3, <2>5, OtherCalls DEF Return
  <2>. QED BY <1>1, <2>2, <2>3, <2>4, <2>6, RowStep
<1>. QED BY <1>2, <1>3 DEF MarkRewarded

LEMMA DiesInv == ASSUME Inv, NEW p \in Procs, Dies(p) PROVE Inv'
BY ReturnStep DEF Dies, callVars, moneyVars

-----------------------------------------------------------------------------
LEMMA NextInv == Inv /\ [Next]_vars => Inv'
<1>. SUFFICES ASSUME Inv, [Next]_vars PROVE Inv'
  OBVIOUS
<1>1. CASE UNCHANGED vars
  BY <1>1 DEF vars, Inv, TypeOK, RowOK, CallOK, RewardIsEarned, FlaggedIsReviewed, At
<1>2. ASSUME NEW p \in Procs, Step(p) PROVE Inv'
  BY <1>2, AssessInv, DisqualifyInv, QualifyInv, ReadRefundedInv, TakeBackInv, ReverseInv,
     ToReviewInv, ApproveInv, LoadInv, CreditInv, MarkRewardedInv DEF Step
<1>3. ASSUME NEW p \in Procs, Dies(p) \/ Scan(p) PROVE Inv'
  BY <1>3, DiesInv, ScanInv
<1>4. ASSUME NEW p \in Procs, NEW t \in Txns, Complete(p, t) \/ Refund(p, t) PROVE Inv'
  BY <1>4, CompleteInv, RefundInv
<1>5. ASSUME NEW p \in Procs, NEW releaseNow \in BOOLEAN, ReadApproved(p, releaseNow) PROVE Inv'
  BY <1>5, ReadApprovedInv
<1>6. CASE Cooled \/ Reject \/ Use
  BY <1>6, CooledInv, RejectInv, UseInv
<1>. QED BY <1>1, <1>2, <1>3, <1>4, <1>5, <1>6 DEF Next

LEMMA SpecInv == Spec => []Inv
<1>1. Init => Inv
  BY InitInv
<1>2. Inv /\ [Next]_vars => Inv'
  BY NextInv
<1>. QED BY <1>1, <1>2, PTL DEF Spec

\* The type invariant, and with it that taking a reward back never overdraws
\* the account of the inviter.
THEOREM ReferralTypes == Spec => []TypeOK
<1>1. Inv => TypeOK
  BY DEF Inv
<1>. QED BY <1>1, SpecInv, PTL

\* However many calls of approve() and of the scan run, and wherever they die,
\* the reward is credited once and for the first payment only.
THEOREM RewardOnce == Spec => []RewardIsEarned
<1>1. Inv => RewardIsEarned
  BY DEF Inv
<1>. QED BY <1>1, SpecInv, PTL

\* No order of scans, reviews and payments credits a flagged invitation that no
\* administrator approved.
THEOREM FlaggedNeedsReview == Spec => []FlaggedIsReviewed
<1>1. Inv => FlaggedIsReviewed
  BY DEF Inv
<1>. QED BY <1>1, SpecInv, PTL
=============================================================================
