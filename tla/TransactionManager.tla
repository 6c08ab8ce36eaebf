------------------------ MODULE TransactionManager ------------------------
(***************************************************************************)
(* TransactionManager of the SolanaService add-on (transaction_manager.gd, *)
(* with is_transaction_confirmed of solana_service.gd): coroutines that    *)
(* sign, send and poll for a confirmation.  One timer, one flag and one    *)
(* signal per stage serve every transaction of the manager: what ends the  *)
(* stage of one resumes everybody in it.                                   *)
(***************************************************************************)
EXTENDS Naturals

CONSTANTS
  Txs,
  WalletTxs,  \* those a wallet adapter signs; a keypair signs the others
  Commitment, \* the level each is confirmed at: 1 processed, 2 confirmed, 3 finalized
  Timeout,    \* confirmation_timeout, in periods of confirmation_check_rate
  MaxErrors,  \* bound: status requests that fail
  NoTimer

VARIABLES
  stage,   \* where sign_and_send is: "idle", "sign", "send", "wait" or "done"
  asked,   \* the wallet was asked for a signature and has not answered
  signed,
  result,  \* what the caller is told: "", "cancelled", "failed", "success"
  poll,    \* handle_transaction_confirmation: "none", "timer", "check", or "lost"
           \* when it awaits a timer that was freed
  wait_time,
  tx_timeout_timer, \* the transaction whose timer the member is, or NoTimer once freed
  confirmation_in_progress,
  level,   \* how far the chain has got: 0 .. 3
  errors,  \* counter of the bound
  crossed  \* history: one began while another, or its polling, had not ended

told == <<stage, signed, result>>
vars == <<told, asked, poll, wait_time, tx_timeout_timer, confirmation_in_progress, level,
          errors, crossed>>

TypeOK ==
  /\ stage \in [Txs -> {"idle", "sign", "send", "wait", "done"}]
  /\ result \in [Txs -> {"", "cancelled", "failed", "success"}]
  /\ poll \in [Txs -> {"none", "timer", "check", "lost"}]
  /\ wait_time \in [Txs -> Nat] /\ level \in [Txs -> 0 .. 3]
  /\ tx_timeout_timer \in Txs \cup {NoTimer}
  /\ \A b \in {asked, signed} : b \in [Txs -> BOOLEAN]

Init ==
  /\ stage = [t \in Txs |-> "idle"]
  /\ asked = [t \in Txs |-> FALSE]
  /\ signed = [t \in Txs |-> FALSE]
  /\ result = [t \in Txs |-> ""]
  /\ poll = [t \in Txs |-> "none"]
  /\ wait_time = [t \in Txs |-> 0]
  /\ tx_timeout_timer = NoTimer
  /\ confirmation_in_progress = FALSE
  /\ level = [t \in Txs |-> 0]
  /\ errors = 0 /\ crossed = FALSE

In(s) == {t \in Txs : stage[t] = s}

\* sign_and_send: add_signature awaits on_tx_signed when the signer is a wallet
SignAndSend(t) ==
  /\ stage[t] = "idle"
  /\ stage' = [stage EXCEPT ![t] = IF t \in WalletTxs THEN "sign" ELSE "send"]
  /\ asked' = [asked EXCEPT ![t] = t \in WalletTxs]
  /\ signed' = [signed EXCEPT ![t] = t \notin WalletTxs]
  /\ crossed' = (crossed \/ \E o \in Txs : stage[o] \notin {"idle", "done"} \/ poll[o] # "none" \/ asked[o])
  /\ UNCHANGED <<result, poll, wait_time, tx_timeout_timer, confirmation_in_progress, level, errors>>

\* handle_transaction_approve
HandleTransactionApprove(t) ==
  /\ asked[t]
  /\ asked' = [asked EXCEPT ![t] = FALSE]
  /\ signed' = [signed EXCEPT ![t] = TRUE]
  /\ stage' = [o \in Txs |-> IF o \in In("sign") THEN "send" ELSE stage[o]]
  /\ UNCHANGED <<result, poll, wait_time, tx_timeout_timer, confirmation_in_progress, level,
                 errors, crossed>>

\* handle_transaction_cancel
HandleTransactionCancel(t) ==
  /\ asked[t]
  /\ asked' = [asked EXCEPT ![t] = FALSE]
  /\ stage' = [o \in Txs |-> IF o \in In("sign") THEN "done" ELSE stage[o]]
  /\ result' = [o \in Txs |-> IF o \in In("sign") THEN "cancelled" ELSE result[o]]
  /\ UNCHANGED <<signed, poll, wait_time, tx_timeout_timer, confirmation_in_progress, level,
                 errors, crossed>>

\* transaction_response_received: an error, which a transaction that is not
\* fully signed always gets, or a signature to wait for.
Rejected(t) ==
  /\ stage[t] = "send"
  /\ stage' = [stage EXCEPT ![t] = "done"]
  /\ result' = [result EXCEPT ![t] = "failed"]
  /\ UNCHANGED <<signed, asked, poll, wait_time, tx_timeout_timer, confirmation_in_progress,
                 level, errors, crossed>>

\* A new timer, which the member now holds.
CreateTimeoutTimer(t) == tx_timeout_timer' = t

Accepted(t) ==
  /\ stage[t] = "send" /\ signed[t]
  /\ stage' = [stage EXCEPT ![t] = "wait"]
  /\ confirmation_in_progress' = TRUE
  /\ poll' = [poll EXCEPT ![t] = "timer"]
  /\ wait_time' = [wait_time EXCEPT ![t] = 0]
  /\ CreateTimeoutTimer(t)
  /\ UNCHANGED <<signed, result, asked, level, errors, crossed>>

\* Mutant: wait_time is not added to.
TimerFiresUncounted(t) ==
  /\ poll[t] = "timer"
  /\ poll' = [o \in Txs |-> IF o = t THEN "check"
                            ELSE IF o = tx_timeout_timer /\ poll[o] = "timer" THEN "lost" ELSE poll[o]]
  /\ tx_timeout_timer' = NoTimer
  /\ UNCHANGED <<wait_time, told, asked, confirmation_in_progress, level, errors, crossed>>

\* Its timer: the member, whoever's timer it now is, is freed; who awaits that
\* one awaits it for ever.  To free one that is gone already is an error that
\* ends the coroutine, unless that happened in the same frame.
TimerFires(t) ==
  /\ poll[t] = "timer"
  /\ LET resumed == [o \in Txs |-> IF o = t THEN "check"
                                   ELSE IF o = tx_timeout_timer /\ poll[o] = "timer" THEN "lost" ELSE poll[o]]
     IN \/ poll' = resumed
        \/ tx_timeout_timer = NoTimer /\ poll' = [resumed EXCEPT ![t] = "lost"]
  /\ wait_time' = [wait_time EXCEPT ![t] = @ + 1]
  /\ tx_timeout_timer' = NoTimer
  /\ UNCHANGED <<told, asked, confirmation_in_progress, level, errors, crossed>>

\* Mutant: a signature the node does not know passes.
ConfirmedNull(t) == level[t] \in {0, Commitment[t]}

\* is_transaction_confirmed, of an answer with a status for the signature
IsTransactionConfirmed(t) == level[t] # 0 /\ level[t] = Commitment[t]

\* handle_transaction_pass, handle_transaction_timeout: frees the timer and
\* emits on_tx_confirmed.
Verdict(v) ==
  /\ tx_timeout_timer' = NoTimer
  /\ confirmation_in_progress' = FALSE
  /\ stage' = [o \in Txs |-> IF o \in In("wait") THEN "done" ELSE stage[o]]
  /\ result' = [o \in Txs |-> IF o \in In("wait") THEN v ELSE result[o]]

\* The other coroutines, when the timer of one of them is freed.
Bereft(p) == [o \in Txs |-> IF o = tx_timeout_timer /\ p[o] = "timer" THEN "lost" ELSE p[o]]

\* The rest of the loop of handle_transaction_confirmation, with the answer.
Check(t, confirmed) ==
  /\ poll[t] = "check"
  /\ IF confirmed \/ wait_time[t] >= Timeout
     THEN /\ Verdict(IF confirmed THEN "success" ELSE "failed")
          /\ poll' = Bereft([poll EXCEPT ![t] = "none"])
     ELSE /\ UNCHANGED <<stage, result, confirmation_in_progress>>
          /\ IF confirmation_in_progress
             THEN poll' = [poll EXCEPT ![t] = "timer"] /\ CreateTimeoutTimer(t)
             ELSE poll' = [poll EXCEPT ![t] = "none"] /\ UNCHANGED tx_timeout_timer
  /\ UNCHANGED <<signed, asked, wait_time, level, crossed>>

StatusAnswered(t) == Check(t, IsTransactionConfirmed(t)) /\ UNCHANGED errors

StatusFailed(t) == errors < MaxErrors /\ errors' = errors + 1 /\ Check(t, FALSE)

\* The cluster; a transaction may never get anywhere.
Advance(t) ==
  /\ stage[t] = "wait" \/ poll[t] # "none"
  /\ level[t] < 3
  /\ level' = [level EXCEPT ![t] = @ + 1]
  /\ UNCHANGED <<told, asked, poll, wait_time, tx_timeout_timer, confirmation_in_progress,
                 errors, crossed>>

Respond(t) == Rejected(t) \/ Accepted(t)
Status(t) == StatusAnswered(t) \/ StatusFailed(t)

Next ==
  \E t \in Txs :
    \/ SignAndSend(t)
    \/ HandleTransactionApprove(t) \/ HandleTransactionCancel(t)
    \/ Respond(t)
    \/ TimerFires(t) \/ Status(t)
    \/ Advance(t)

\* Timers run out and every request to the node ends; a wallet need not answer.
Spec ==
  /\ Init /\ [][Next]_vars
  /\ \A t \in Txs : WF_vars(Respond(t)) /\ WF_vars(TimerFires(t)) /\ WF_vars(Status(t))

-----------------------------------------------------------------------------
(* Properties.                                                             *)

\* Unless transactions overlap, the caller is told success of a transaction
\* that has reached its level, and of a cancellation when its own wallet
\* refused.  is_transaction_confirmed, on_tx_confirmed, on_tx_signed.
ToldOfItsOwn ==
  ~crossed => \A t \in Txs : /\ result[t] = "success" => level[t] >= Commitment[t]
                             /\ result[t] = "cancelled" => ~signed[t]

\* Whoever waits for a confirmation is answered, although coroutines free each
\* other's timers: one of them always goes on.  handle_transaction_confirmation.
EveryWaitEnds == \A t \in Txs : stage[t] = "wait" ~> stage[t] = "done"

\* A transaction that has reached the level asked for is not polled for again:
\* "if transaction is confirmed, then trigger signal and break out".
ReachedIsConfirmed ==
  [][\A t \in Txs : poll[t] = "check" /\ poll'[t] = "timer" => level[t] < Commitment[t]]_vars
=============================================================================
