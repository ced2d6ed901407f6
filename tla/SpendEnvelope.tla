--------------------------- MODULE SpendEnvelope ---------------------------
(***************************************************************************)
(* One agent's spend envelope: the grading (lib/spend-envelope), the day's *)
(* ledger (lib/spend-envelope-server), and the paths that consult them:    *)
(* funding transfers and withdrawals (lib/agent-usdc-funding,              *)
(* agent-eth-funding, agent-eth-withdraw), the bonds a mining tick stakes  *)
(* (lib/auto-mine), and paid tool calls, which reserve their price under a *)
(* lock before they pay (lib/x402-tool-server).                            *)
(*                                                                         *)
(* A definition named X_slip is X with a mistake a change could make.      *)
(*                                                                         *)
(* Abstractions.  A spend is a name; it pays once, and may be asked for    *)
(* again while nothing was paid or signed.  Kinds and allowed              *)
(* destinations are checked before any amount and left out, as are the     *)
(* balances and the gas.  A refusal is not written down: refused rows are  *)
(* never counted.  The clock has the grain of MaxTime instants, DAY of     *)
(* which make the 24 hours of the window.  A payment that the selector     *)
(* chose is signed, and may settle at any later time: how long it is valid *)
(* is a field of the challenge that nothing here looks at.                 *)
(***************************************************************************)
EXTENDS Integers, FiniteSets, FiniteSetsExt

CONSTANTS
    Transfers,              \* fund_usdc, fund_eth, withdraw_eth
    Bonds,                  \* the bonds that its mining ticks plan
    ToolCalls,              \* x402_tool
    Amounts,                \* USD asked for; of a tool call, its price cap
    Envelopes,              \* [perTx, daily, auto]
    Platform,               \* the one of an agent that has no row, or whose row cannot be read
    DAY,
    MaxTime, MaxFaults,     \* bounds: instants; deaths and failed statements;
    MaxSpends               \* spends that are under way or have ended

Spends == Transfers \cup Bonds \cup ToolCalls

ASSUME SpendAssumption ==
    /\ Transfers \cap Bonds = {} /\ (Transfers \cup Bonds) \cap ToolCalls = {}
    /\ Amounts \subseteq Nat
    /\ Envelopes \subseteq [perTx : Nat, daily : Nat, auto : Nat] /\ Platform \in Envelopes
    /\ DAY \in Nat \ {0} /\ MaxTime \in Nat /\ MaxFaults \in Nat /\ MaxSpends \in Nat

(* Whatever an agent has been asked for, it was asked finitely often.       *)
ASSUME FiniteAssumption == IsFiniteSet(Spends)

NoEnvelope == [perTx |-> 0, daily |-> 0, auto |-> 0]
NEVER == -1

VARIABLES
    now,
    envelope,   \* the agent's envelope in force
    pc,         \* how far each spend is
    amount,     \* what it asks for; of a tool call that pays, the chosen price
    own,        \* the envelope it read
    event,      \* agent_spend_event: when its ALLOW row was written
    reserved,   \* agent_x402_spend_reservation: the amount held, zero once released
    gradedAt,   \* when it was graded, which for a tool call dates its reservation
    paid,       \* history: what really left the wallet
    before,     \* history: the spends allowed in the 24 hours up to its grading
    alongside,  \* history: those of them that were still under way
    blind,      \* history: spends graded while the ledger could not be read
    unchecked,  \* history: bonds that nothing graded
    disowned,   \* history: tool calls whose receipt said that nothing was paid
    faults

vars == <<now, envelope, pc, amount, own, event, reserved, gradedAt, paid, before, alongside,
          blind, unchecked, disowned, faults>>
Tables == <<event, reserved>>
History == <<before, alongside, blind, unchecked, disowned>>

Init ==
    /\ now = 0
    /\ envelope \in Envelopes
    /\ pc = [s \in Spends |-> "idle"]
    /\ amount = [s \in Spends |-> 0]
    /\ own = [s \in Spends |-> NoEnvelope]
    /\ event = [s \in Spends |-> NEVER]
    /\ reserved = [s \in Spends |-> 0]
    /\ gradedAt = [s \in Spends |-> NEVER]
    /\ paid = [s \in Spends |-> 0]
    /\ before = [s \in Spends |-> {}] /\ alongside = [s \in Spends |-> {}]
    /\ blind = {} /\ unchecked = {} /\ disowned = {}
    /\ faults = 0

Goto(s, label) == pc' = [pc EXCEPT ![s] = label]
Fault == faults < MaxFaults /\ faults' = faults + 1
SumOver(f, S) == MapThenSumSet(LAMBDA s : f[s], S)

-----------------------------------------------------------------------------
(* gradeSpend, of an amount that passed the kind and destination checks.    *)
gradeSpend_slip(env, a, spent, ownerApproved) ==      \* the amount itself is not added
    /\ a > 0 /\ a <= env.perTx
    /\ spent <= env.daily
    /\ a > env.auto => ownerApproved
gradeSpend(env, a, spent, ownerApproved) ==
    /\ a > 0 /\ a <= env.perTx
    /\ spent + a <= env.daily
    /\ a > env.auto => ownerApproved

(* The rows of the trailing 24 hours.                                       *)
inWindow(s) == event[s] # NEVER /\ now - event[s] < DAY
sumWindow == SumOver(amount, {s \in Spends : inWindow(s)})

holds_slip(s) == reserved[s] > 0 /\ now = gradedAt[s]      \* a shorter window than the ledger's
holds(s) == reserved[s] > 0 /\ now - gradedAt[s] < DAY
sumReserved == SumOver(reserved, {s \in ToolCalls : holds(s)})

Graded == {s \in Spends : gradedAt[s] # NEVER}
(* A request that is between its check and its row.                         *)
live(s) == pc[s] \in {"pay", "stake", "selected", "paid", "record"}

Another(s) == pc[s] = "idle" /\ Cardinality({r \in Spends : pc[r] # "idle"}) < MaxSpends

(* What a path reads before it grades: its request and the envelope, which  *)
(* is the platform's when the read fails.                                   *)
envelopeFor(s, a) ==
    /\ Another(s)
    /\ amount' = [amount EXCEPT ![s] = a]
    /\ \/ own' = [own EXCEPT ![s] = envelope] /\ UNCHANGED faults
       \/ own' = [own EXCEPT ![s] = Platform] /\ Fault
    /\ Goto(s, "grade")
    /\ UNCHANGED <<now, envelope, Tables, gradedAt, paid, History>>

(* (A change that no spend will read any more is left out.)                 *)
setEnvelopeFor(env) ==
    /\ env # envelope /\ \E s \in Spends : pc[s] = "idle"
    /\ envelope' = env
    /\ UNCHANGED <<now, pc, amount, own, Tables, gradedAt, paid, History, faults>>

(* A spend that comes to nothing: nothing is paid, held or signed.          *)
Dropped(s) ==
    /\ Goto(s, "idle")
    /\ amount' = [amount EXCEPT ![s] = 0] /\ own' = [own EXCEPT ![s] = NoEnvelope]
    /\ gradedAt' = [gradedAt EXCEPT ![s] = NEVER]
    /\ before' = [r \in Spends |-> IF r = s THEN {} ELSE before[r] \ {s}]
    /\ alongside' = [r \in Spends |-> IF r = s THEN {} ELSE alongside[r] \ {s}]
    /\ blind' = blind \ {s} /\ unchecked' = unchecked \ {s}

Allowed(s, label) ==
    /\ gradedAt' = [gradedAt EXCEPT ![s] = now]
    /\ before' = [before EXCEPT ![s] = {r \in Graded : now - gradedAt[r] < DAY}]
    /\ alongside' = [alongside EXCEPT ![s] = {r \in Spends : live(r)}]
    /\ Goto(s, label)

-----------------------------------------------------------------------------
(* Transfers and bonds: check, pay, record.                                 *)

(* checkSpend.  A tick grades its bonds before it stakes the first, and     *)
(* ticks may overlap: bonds take any order.  Nobody approves one.           *)
checkSpend(s) ==
    /\ s \notin ToolCalls /\ pc[s] = "grade"
    /\ \E ownerApproved \in (IF s \in Bonds THEN {FALSE} ELSE BOOLEAN) :
          gradeSpend(own[s], amount[s], sumWindow, ownerApproved)
    /\ Allowed(s, "pay")
    /\ UNCHANGED <<now, envelope, amount, own, Tables, paid, blind, unchecked, disowned, faults>>

(* The ledger cannot be read: the day counts as empty.                      *)
CheckBlind(s) ==
    /\ s \notin ToolCalls /\ pc[s] = "grade"
    /\ Fault
    /\ \E ownerApproved \in (IF s \in Bonds THEN {FALSE} ELSE BOOLEAN) :
          gradeSpend(own[s], amount[s], 0, ownerApproved)
    /\ Allowed(s, "pay")
    /\ blind' = blind \cup {s}
    /\ UNCHANGED <<now, envelope, amount, own, Tables, paid, unchecked, disowned>>

(* A bond that nothing grades: its job is assigned to this worker, or the   *)
(* tick could not read the balance, the record or the schedule.  Without a  *)
(* schedule (it goes on to "stake") it is not written down either.          *)
KeepUnchecked(s, a) ==
    /\ s \in Bonds /\ Another(s)
    /\ amount' = [amount EXCEPT ![s] = a]
    /\ Allowed(s, "pay") \/ Allowed(s, "stake")
    /\ unchecked' = unchecked \cup {s}
    /\ UNCHANGED <<now, envelope, own, Tables, paid, blind, disowned, faults>>

(* ESCALATE or DENY; or the balance, the plan or the claim stops it; or the *)
(* invocation dies.                                                         *)
Refuse(s) ==
    /\ s \notin ToolCalls /\ pc[s] \in {"grade", "pay", "stake"}
    /\ Dropped(s)
    /\ UNCHANGED <<now, envelope, Tables, paid, disowned, faults>>

(* The transfer is confirmed, or its sender only believes it failed.        *)
Transfer(s) ==
    /\ s \notin ToolCalls /\ pc[s] \in {"pay", "stake"}
    /\ paid' = [paid EXCEPT ![s] = amount[s]]
    /\ \/ Goto(s, IF pc[s] = "stake" THEN "ended" ELSE "record") /\ UNCHANGED faults
       \/ Goto(s, "ended") /\ Fault
    /\ UNCHANGED <<now, envelope, amount, own, Tables, gradedAt, History>>

recordSpend(s) ==
    /\ s \notin ToolCalls /\ pc[s] = "record"
    /\ event' = [event EXCEPT ![s] = now]
    /\ Goto(s, "ended")
    /\ UNCHANGED <<now, envelope, amount, own, reserved, gradedAt, paid, History, faults>>

-----------------------------------------------------------------------------
(* Tool calls: reserve, pay, settle.                                        *)

(* reserveSpend, one transaction under the agent's advisory lock.           *)
reserveSpend(s) ==
    /\ s \in ToolCalls /\ pc[s] = "grade"
    /\ gradeSpend(own[s], amount[s], sumWindow + sumReserved, FALSE)
    /\ Allowed(s, "pay")
    /\ reserved' = [reserved EXCEPT ![s] = amount[s]]
    /\ UNCHANGED <<now, envelope, amount, own, event, paid, blind, unchecked, disowned, faults>>

(* Refused, or the transaction fails.                                       *)
ReserveRefused(s) ==
    /\ s \in ToolCalls /\ pc[s] = "grade"
    /\ Dropped(s)
    /\ UNCHANGED <<now, envelope, Tables, paid, disowned, faults>>

(* The selector picks a price at or under the cap, and the payment is       *)
(* signed.                                                                  *)
Select(s) ==
    /\ s \in ToolCalls /\ pc[s] = "pay"
    /\ \E price \in 1..amount[s] : amount' = [amount EXCEPT ![s] = price]
    /\ Goto(s, "selected")
    /\ UNCHANGED <<now, envelope, own, Tables, gradedAt, paid, History, faults>>

(* The tool asks for nothing, its challenge is refused, or the request      *)
(* fails first: the reservation is released.                                *)
NothingToPay(s) ==
    /\ s \in ToolCalls /\ pc[s] = "pay"
    /\ reserved' = [reserved EXCEPT ![s] = 0]
    /\ Dropped(s)
    /\ UNCHANGED <<now, envelope, event, paid, disowned, faults>>

(* The payment settles, whatever the caller has heard of it by then and     *)
(* whether it is still there.                                               *)
FacilitatorSettles(s) ==
    /\ s \in ToolCalls /\ pc[s] \in {"selected", "unheard", "disowned", "recorded"}
    /\ paid' = [paid EXCEPT ![s] = amount[s]]
    /\ Goto(s, IF pc[s] = "selected" THEN "paid" ELSE "ended")
    /\ UNCHANGED <<now, envelope, amount, own, Tables, gradedAt, History, faults>>

(* The receipt says that the settlement failed, and is believed.  It is the *)
(* payee's word: the payment may have settled, or settle yet.               *)
ReceiptFails(s) ==
    /\ s \in ToolCalls /\ pc[s] \in {"selected", "paid"}
    /\ reserved' = [reserved EXCEPT ![s] = 0]
    /\ Goto(s, IF pc[s] = "paid" THEN "ended" ELSE "disowned")
    /\ disowned' = disowned \cup {s}
    /\ UNCHANGED <<now, envelope, amount, own, event, gradedAt, paid, before, alongside, blind,
                   unchecked, faults>>

(* settleReservation: the row and the release in one transaction.  A tool   *)
(* that answers without a receipt is recorded as paid.                      *)
settleReservation(s) ==
    /\ s \in ToolCalls /\ pc[s] \in {"selected", "paid"}
    /\ event' = [event EXCEPT ![s] = now]
    /\ reserved' = [reserved EXCEPT ![s] = 0]
    /\ Goto(s, IF pc[s] = "paid" THEN "ended" ELSE "recorded")
    /\ UNCHANGED <<now, envelope, amount, own, gradedAt, paid, History, faults>>

(* The request times out, or the settlement's transaction fails: with a     *)
(* payment that may have settled the reservation stays.                     *)
TimeOut_slip(s) ==                      \* every failed call gives its budget back
    /\ s \in ToolCalls /\ pc[s] \in {"selected", "paid"}
    /\ Fault
    /\ reserved' = [reserved EXCEPT ![s] = 0]
    /\ Goto(s, IF pc[s] = "paid" THEN "ended" ELSE "unheard")
    /\ UNCHANGED <<now, envelope, amount, own, event, gradedAt, paid, History>>
TimeOut(s) ==
    /\ s \in ToolCalls /\ pc[s] \in {"selected", "paid"}
    /\ Fault
    /\ Goto(s, IF pc[s] = "paid" THEN "ended" ELSE "unheard")
    /\ UNCHANGED <<now, envelope, amount, own, Tables, gradedAt, paid, History>>

-----------------------------------------------------------------------------
(* The write that should follow fails, or the invocation dies before it: a  *)
(* payment without its row, a reservation that nobody releases.             *)
Crash(s) ==
    /\ pc[s] = "record" \/ (s \in ToolCalls /\ pc[s] = "pay")
    /\ Fault
    /\ Goto(s, "ended")
    /\ UNCHANGED <<now, envelope, amount, own, Tables, gradedAt, paid, History>>

(* A request ends within the instant after the one it was graded in: the    *)
(* longest path lasts minutes, the window a day.                            *)
Tick ==
    /\ now < MaxTime
    /\ \A s \in Spends : live(s) => gradedAt[s] = now
    /\ now' = now + 1
    /\ UNCHANGED <<envelope, pc, amount, own, Tables, gradedAt, paid, History, faults>>

Next ==
    \/ \E s \in Spends, a \in Amounts : envelopeFor(s, a) \/ KeepUnchecked(s, a)
    \/ \E env \in Envelopes : setEnvelopeFor(env)
    \/ \E s \in Spends :
          \/ checkSpend(s) \/ CheckBlind(s) \/ Refuse(s) \/ Transfer(s) \/ recordSpend(s)
          \/ reserveSpend(s) \/ ReserveRefused(s) \/ Select(s) \/ NothingToPay(s)
          \/ FacilitatorSettles(s) \/ ReceiptFails(s) \/ settleReservation(s) \/ TimeOut(s)
          \/ Crash(s)
    \/ Tick

Spec == Init /\ [][Next]_vars

-----------------------------------------------------------------------------
Money == Nat
Stages == {"idle", "grade", "pay", "stake", "record", "selected", "paid", "unheard", "disowned", "recorded", "ended"}
TypeOK ==
    /\ now \in 0..MaxTime
    /\ envelope \in Envelopes
    /\ pc \in [Spends -> Stages]
    /\ amount \in [Spends -> Money] /\ paid \in [Spends -> Money] /\ reserved \in [Spends -> Money]
    /\ own \in [Spends -> Envelopes \cup {NoEnvelope}]
    /\ event \in [Spends -> Int] /\ gradedAt \in [Spends -> Int]
    /\ before \in [Spends -> SUBSET Spends] /\ alongside \in [Spends -> SUBSET Spends]
    /\ blind \subseteq Spends /\ unchecked \subseteq Bonds /\ disowned \subseteq ToolCalls
    /\ faults \in 0..MaxFaults

(* A payment belongs to the day in which it was graded.                     *)
dayOf(s) == {s} \cup before[s]

(* The spends of its day that s leaves out of its sum: a tool call counts another   *)
(* by its reservation, unless a receipt had denied the payment by then;     *)
(* everything else is counted by its row, if it is ever written and was     *)
(* written by then.                                                         *)
missedBy(s) ==
    {r \in before[s] : IF {r, s} \subseteq ToolCalls THEN r \in disowned \ alongside[s]
                       ELSE r \in alongside[s] \/ event[r] = NEVER}
spentUpTo(s) == SumOver(paid, dayOf(s) \ missedBy(s))

(* However many tool calls of one agent run at once, whatever they are told *)
(* or not told of their payments, and wherever they die: with the other     *)
(* tool calls of its day, and the transfers and bonds written down before   *)
(* it was graded, one never pays past the envelope it read.  The exceptions *)
(* are the payments that a payee's receipt had denied before, which settled *)
(* all the same, and transfers and bonds then under way or never recorded.  *)
ToolsStayInEnvelope ==
    \A s \in ToolCalls : paid[s] > 0 => spentUpTo(s) <= own[s].daily

(* Transfers and bonds check first and record after they paid.  One that    *)
(* was graded with the ledger in sight does not take its day past the       *)
(* ceiling together with all that had been recorded by then, even by bonds  *)
(* which nothing graded.  What it does not count are the spends then under  *)
(* way, the bonds of its own tick among them, the reservations of tool      *)
(* calls, and what was paid and never written down.                         *)
CeilingHolds ==
    \A s \in (Transfers \cup Bonds) \ (blind \cup unchecked) :
        paid[s] > 0 => spentUpTo(s) <= own[s].daily

(* What a tool call paid is counted for the day of its grading, by its      *)
(* reservation or by its row, at every moment and in full: unless the       *)
(* receipt denied it, after which it is counted by neither.                 *)
PaidIsCounted ==
    \A s \in ToolCalls \ disowned :
        paid[s] > 0 /\ now - gradedAt[s] < DAY =>
            (inWindow(s) /\ amount[s] = paid[s]) \/ (holds(s) /\ reserved[s] >= paid[s])
=============================================================================
