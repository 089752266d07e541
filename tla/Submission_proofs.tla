-------------------------- MODULE Submission_proofs -------------------------
(***************************************************************************)
(* A request is executed at most once, but for a batch whose attempt has   *)
(* failed; nothing is rejected, and a key is changed once, for a program   *)
(* that waits; for any number of requests, attempts, failures,             *)
(* authorisations and operations of other programs.                        *)
(***************************************************************************)
EXTENDS Submission, TLAPS

Inv == TypeOK /\ IInv

Over == {"idle", "done", "failed"}

-----------------------------------------------------------------------------
(***************************************************************************)
(* What the steps of one call have in common: they change that call alone. *)
(***************************************************************************)

\* A call that changes its record keeps the calls in their type.
LEMMA CallsTyped ==
    ASSUME TypeOK, NEW c \in Calls, NEW record \in CallStates,
           call' = [call EXCEPT ![c] = record]
    PROVE  /\ call' \in [Calls -> CallStates]
           /\ call'[c] = record
           /\ \A d \in Calls \ {c} : call'[d] = call[d]
  BY DEF TypeOK

\* Goto changes the pc of one call.
LEMMA GotoRecord ==
    ASSUME TypeOK, NEW c \in Calls, NEW there \in Pcs, Goto(c, there)
    PROVE  /\ [call[c] EXCEPT !.pc = there] \in CallStates
           /\ call' = [call EXCEPT ![c] = [call[c] EXCEPT !.pc = there]]
  BY DEF TypeOK, CallStates, Goto

\* Fetching a member of the two record types.
LEMMA Fields ==
    ASSUME TypeOK, NEW c \in Calls
    PROVE  /\ call[c].pc \in Pcs
           /\ call[c].request \in Requests \cup {None}
           /\ call[c].tx \in Tx \cup {NoTx}
  BY DEF TypeOK, CallStates

\* An object whose fee is written keeps its nonce.
LEMMA ParamsTyped ==
    ASSUME TypeOK, NEW r, NEW object, r \in Requests => object \in Params,
           params' = [params EXCEPT ![r] = object]
    PROVE  /\ params' \in [Requests -> Params]
           /\ r \in Requests => params'[r] = object
           /\ \A s \in Requests : s # r => params'[s] = params[s]
  BY DEF TypeOK

\* An attempt keeps the other attempts apart if it takes no request from them.
LEMMA AttemptMoves ==
    ASSUME TypeOK, OneAttempt, NEW c \in Calls, NEW record \in CallStates,
           call' = [call EXCEPT ![c] = record],
           record.request = call[c].request,
           call[c].pc \notin {"idle", "failed"}
    PROVE  OneAttempt'
  <1>1. /\ call'[c] = record
        /\ \A d \in Calls \ {c} : call'[d] = call[d]
    BY CallsTyped
  <1> QED
    BY <1>1 DEF OneAttempt

\* What the server has received stays accounted for when a call moves on that had
\* submitted nothing, or that keeps what it has submitted.
LEMMA FromCallsMoves ==
    ASSUME TypeOK, FromCalls, NEW c \in Calls, NEW record \in CallStates,
           call' = [call EXCEPT ![c] = record],
           \/ call[c].pc \notin {"answer", "done", "failed"}
           \/ /\ record.pc \in {"answer", "done", "failed"}
              /\ record.request = call[c].request
              /\ record.tx = call[c].tx,
           UNCHANGED Received
    PROVE  FromCalls'
  <1>1. /\ call'[c] = record
        /\ \A d \in Calls \ {c} : call'[d] = call[d]
    BY CallsTyped
  <1> QED
    BY <1>1 DEF FromCalls

\* The authorisations are none of a call's business.
LEMMA AuthUntouched ==
    ASSUME TypeOK, UNCHANGED <<authVars, turnVars>>
    PROVE  AuthTypeOK'
  BY DEF TypeOK, AuthTypeOK, authVars, turnVars

\* An attempt that moves on without touching its object, be it to its end.
LEMMA GotoKeeps ==
    ASSUME Inv, NEW c \in Calls, NEW there \in {"submit", "answer", "done", "failed"},
           Goto(c, there), call[c].pc \notin Over,
           there = "submit" =>
                call[c].pc = "key" \/ (call[c].pc = "sign" /\ call[c].request \in Batches),
           UNCHANGED params
    PROVE  call' \in [Calls -> CallStates] /\ OneAttempt' /\ StageInv'
  <1> DEFINE record == [call[c] EXCEPT !.pc = there]
  <1>1. there \in Pcs
    BY DEF Pcs
  <1>2. record \in CallStates /\ call' = [call EXCEPT ![c] = record]
    BY <1>1, GotoRecord DEF Inv
  <1>3. /\ record.pc = there
        /\ record.request = call[c].request
        /\ record.tx = call[c].tx
    BY DEF Inv, TypeOK, CallStates
  <1> HIDE DEF record
  <1>4. /\ call' \in [Calls -> CallStates]
        /\ call'[c] = record
        /\ \A d \in Calls \ {c} : call'[d] = call[d]
    BY <1>2, CallsTyped DEF Inv
  <1>5. OneAttempt'
    BY <1>2, <1>3, AttemptMoves DEF Inv, IInv, Over
  <1>6. StageInv'
    BY <1>3, <1>4 DEF Inv, IInv, StageInv, Over
  <1> QED
    BY <1>4, <1>5, <1>6
-----------------------------------------------------------------------------
(***************************************************************************)
(* The initial state, and the actions one by one.                          *)
(***************************************************************************)
LEMMA InitInv == Init => Inv
  <1> SUFFICES ASSUME Init PROVE Inv
    OBVIOUS
  <1>1. PICK given : /\ given \in [Batches -> GivenNonces \cup {None}]
                     /\ params = [r \in Requests |->
                                    [nonce |-> IF r \in Batches THEN given[r] ELSE None,
                                     fee |-> "unset"]]
    BY DEF Init
  <1>2. [pc |-> "idle", request |-> None, tx |-> NoTx] \in CallStates
    BY DEF CallStates, Pcs
  <1>3. account \in [nonce : Nat, keySet : BOOLEAN]
    BY DEF Init
  <1>4. TypeOK
    <2>1. params \in [Requests -> Params]
      BY <1>1, SubmissionAssumption DEF Params, Fees
    <2>2. call \in [Calls -> CallStates]
      BY <1>2 DEF Init
    <2>3. AuthTypeOK
      <3>1. authorised \in BOOLEAN /\ outOfTurn \in BOOLEAN
        BY DEF Init
      <3>2. /\ auth \in AuthCalls
            /\ authFacts \subseteq Nat /\ auths \in 0 .. MaxAuths
        BY SubmissionAssumption DEF Init, AuthCalls
      <3> QED
        BY <3>1, <3>2 DEF AuthTypeOK
    <2>4. failures \in 0 .. MaxFailures /\ foreign \in 0 .. MaxForeign
      BY SubmissionAssumption DEF Init
    <2>5. pool \subseteq Tx /\ executed \subseteq Tx /\ rejected \subseteq Tx
      BY DEF Init
    <2> QED
      BY <1>3, <2>1, <2>2, <2>3, <2>4, <2>5 DEF TypeOK
  <1>5. \A c \in Calls : call[c].pc = "idle"
    BY DEF Init
  <1>6. OneAttempt /\ StageInv
    BY <1>5 DEF OneAttempt, StageInv
  <1>7. NonceKept /\ FromCalls /\ ExecutedOnce
    BY DEF Init, NonceKept, FromCalls, Received, ExecutedOnce
  <1> QED
    BY <1>4, <1>6, <1>7 DEF Inv, IInv

\* The program calls an operation on an object of its own.
LEMMA CallStep ==
    ASSUME Inv, NEW c \in Calls, NEW r \in Requests, Call(c, r)
    PROVE  Inv'
  <1> DEFINE object == [params[r] EXCEPT !.fee = FeeWhileAsking(r)]
  <1>1. PICK there \in {"nonce", "fee", "sign"} :
            /\ call' = [call EXCEPT ![c] = [call[c] EXCEPT !.pc = there, !.request = r]]
            /\ r \notin Renumbered => (there = "nonce" <=> params[r].nonce = None)
            /\ r \in Batches => there = "nonce"
            /\ r \in RemoteRequests => there = "sign"
    BY SubmissionAssumption DEF Call, AfterNonce, Renumbered
  <1> DEFINE record == [call[c] EXCEPT !.pc = there, !.request = r]
  <1>2. /\ record \in CallStates
        /\ record.pc = there /\ record.request = r
    BY DEF Inv, TypeOK, CallStates, Pcs
  <1>3. call' = [call EXCEPT ![c] = record]
    BY <1>1
  <1> HIDE DEF record
  <1>4. /\ call' \in [Calls -> CallStates]
        /\ call'[c] = record
        /\ \A d \in Calls \ {c} : call'[d] = call[d]
    BY <1>2, <1>3, CallsTyped DEF Inv
  <1>5. object \in Params /\ object.nonce = params[r].nonce
    BY DEF Inv, TypeOK, Params, FeeWhileAsking, Fees
  <1>6. UNCHANGED params \/ params' = [params EXCEPT ![r] = object]
    BY DEF Call
  <1> HIDE DEF object
  <1>7. /\ params' \in [Requests -> Params]
        /\ \A s \in Requests : params'[s].nonce = params[s].nonce
    BY <1>5, <1>6, ParamsTyped DEF Inv, TypeOK
  <1>8. UNCHANGED <<account, pool, executed, rejected, foreign, failures, authVars>>
    BY DEF Call, serverVars
  <1>8a. AuthTypeOK'
    <2>1. outOfTurn' = (outOfTurn \/ ~InTurn(r)) /\ authorised' = FALSE
      BY DEF Call
    <2>2. outOfTurn' \in BOOLEAN /\ authorised' \in BOOLEAN
      BY <2>1
    <2> QED
      BY <1>8, <2>2 DEF Inv, TypeOK, AuthTypeOK, authVars
  <1>9. TypeOK'
    BY <1>4, <1>7, <1>8, <1>8a DEF Inv, TypeOK
  <1>10. OneAttempt'
    BY <1>2, <1>4 DEF Call, Free, Inv, IInv, OneAttempt
  <1>11. StageInv'
    BY <1>1, <1>2, <1>4, <1>7, SubmissionAssumption DEF Inv, IInv, StageInv, Tx, Renumbered
  <1>12. NonceKept' /\ ExecutedOnce'
    BY <1>7, <1>8 DEF Inv, IInv, TypeOK, NonceKept, ExecutedOnce, Received, Tx
  <1>13. FromCalls'
    <2>1. UNCHANGED Received /\ call[c].pc = "idle"
      BY <1>8 DEF Received, Call
    <2> QED
      BY <1>2, <1>3, <2>1, FromCallsMoves DEF Inv, IInv
  <1> QED
    BY <1>9, <1>10, <1>11, <1>12, <1>13 DEF Inv, IInv

\* No other attempt and no transaction handed out relies on a nonce that is missing.
LEMMA NonceAnswerStep ==
    ASSUME Inv, NEW c \in Calls, NonceAnswer(c)
    PROVE  Inv'
  <1> DEFINE r == call[c].request
             object == [nonce |-> account.nonce, fee |-> FeeWhileAsking(r)]
  <1>1. /\ r \in Requests /\ r \notin Renumbered
        /\ call[c].pc = "nonce" /\ params[r].nonce = None
    BY DEF NonceAnswer, Inv, IInv, StageInv, Renumbered
  <1>2. object \in Params /\ object.nonce # None
    BY <1>1 DEF Inv, TypeOK, Params, FeeWhileAsking, Fees, None
  <1>3. params' = [params EXCEPT ![r] = object]
    BY DEF NonceAnswer
  <1>4. PICK there \in {"fee", "sign"} : Goto(c, there)
    BY DEF NonceAnswer, AfterNonce
  <1>5. UNCHANGED <<account, pool, executed, rejected, foreign, failures, authVars, turnVars>>
    BY DEF NonceAnswer, serverVars
  <1> DEFINE record == [call[c] EXCEPT !.pc = there]
  <1>6. record \in CallStates /\ call' = [call EXCEPT ![c] = record]
    BY <1>4, GotoRecord DEF Inv, Pcs
  <1>7. record.pc = there /\ record.request = r
    BY DEF Inv, TypeOK, CallStates
  <1> HIDE DEF record, object, r
  <1>8. /\ call' \in [Calls -> CallStates]
        /\ call'[c] = record
        /\ \A d \in Calls \ {c} : call'[d] = call[d]
    BY <1>6, CallsTyped DEF Inv
  <1>9. /\ params' \in [Requests -> Params]
        /\ params'[r] = object
        /\ \A s \in Requests : s # r => params'[s] = params[s]
    BY <1>1, <1>2, <1>3, ParamsTyped DEF Inv
  <1>10. TypeOK'
    BY <1>5, <1>8, <1>9, AuthUntouched DEF Inv, TypeOK
  <1>11. OneAttempt'
    BY <1>1, <1>6, <1>7, AttemptMoves DEF Inv, IInv, r
  <1>12. \A d \in Calls \ {c} : call[d].request = r => call[d].pc \in {"idle", "failed"}
    BY <1>1 DEF Inv, IInv, OneAttempt, r
  <1>13. \A tx \in Tx : tx.nonce = params[tx.request].nonce => tx.request # r
    BY <1>1 DEF Tx, None
  <1>14. StageInv'
    <2> SUFFICES ASSUME NEW d \in Calls
                 PROVE  /\ call'[d].pc \notin Over => call'[d].request \in Requests
                        /\ call'[d].pc = "nonce" => call'[d].request \notin RemoteRequests
                        /\ call'[d].pc \in {"fee", "key"} => call'[d].request \notin Renumbered
                        /\ call'[d].request \notin Renumbered =>
                            /\ call'[d].pc = "nonce" => params'[call'[d].request].nonce = None
                            /\ call'[d].pc \in {"fee", "sign"} =>
                                    params'[call'[d].request].nonce # None
                        /\ \/ call'[d].pc \in {"key", "submit"}
                           \/ call'[d].pc = "sign" /\ call'[d].request \in Batches
                           => /\ call'[d].tx \in Tx /\ call'[d].tx.request = call'[d].request
                              /\ call'[d].request \notin Renumbered =>
                                    call'[d].tx.nonce = params'[call'[d].request].nonce
      BY DEF StageInv, Over
    <2>1. CASE d = c
      BY <1>1, <1>2, <1>7, <1>8, <1>9, <2>1 DEF Renumbered
    <2>2. CASE d # c
      <3>1. call'[d] = call[d]
        BY <1>8, <2>2
      <3>2. call[d].pc \notin {"idle", "failed"} => call[d].request # r
        BY <1>12, <2>2
      <3> QED
        BY <1>9, <3>1, <3>2 DEF Inv, IInv, StageInv, Over
    <2> QED
      BY <2>1, <2>2
  <1>15. NonceKept' /\ ExecutedOnce'
    BY <1>5, <1>9, <1>13 DEF Inv, IInv, TypeOK, NonceKept, ExecutedOnce, Received, Tx
  <1>16. FromCalls'
    <2>1. UNCHANGED Received
      BY <1>5 DEF Received
    <2> QED
      BY <1>1, <1>6, <2>1, FromCallsMoves DEF Inv, IInv
  <1> QED
    BY <1>10, <1>11, <1>14, <1>15, <1>16 DEF Inv, IInv

\* A batch gets its nonce in the call alone.
LEMMA BatchNonceAnswerStep ==
    ASSUME Inv, NEW c \in Calls, BatchNonceAnswer(c)
    PROVE  Inv'
  <1> USE DEF Renumbered
  <1> DEFINE r == call[c].request
             numbered == [request |-> r, nonce |-> FirstNonce(r), fee |-> "quoted"]
             record == [pc |-> "sign", request |-> r, tx |-> numbered]
  <1>1. r \in Requests /\ r \in Batches /\ call[c].pc = "nonce"
    BY DEF BatchNonceAnswer, Requests
  <1>2. numbered \in Tx /\ numbered.request = r
    BY <1>1 DEF Inv, TypeOK, Params, FirstNonce, Tx, Fees
  <1>3. call' = [call EXCEPT ![c] = record]
    BY DEF BatchNonceAnswer
  <1>4. UNCHANGED <<params, account, pool, executed, rejected, foreign, failures, authVars, turnVars>>
    BY DEF BatchNonceAnswer, serverVars
  <1>5. record \in CallStates
    BY <1>1, <1>2 DEF CallStates, Pcs
  <1>6. record.pc = "sign" /\ record.request = r /\ record.tx = numbered
    OBVIOUS
  <1> HIDE DEF record, numbered, r
  <1>7. /\ call' \in [Calls -> CallStates]
        /\ call'[c] = record
        /\ \A d \in Calls \ {c} : call'[d] = call[d]
    BY <1>3, <1>5, CallsTyped DEF Inv
  <1>8. TypeOK'
    BY <1>4, <1>7, AuthUntouched DEF Inv, TypeOK
  <1>9. OneAttempt'
    BY <1>1, <1>3, <1>5, <1>6, AttemptMoves DEF Inv, IInv, r
  <1>10. StageInv'
    BY <1>1, <1>2, <1>4, <1>6, <1>7 DEF Inv, IInv, StageInv
  <1>11. NonceKept' /\ ExecutedOnce'
    BY <1>4 DEF Inv, IInv, NonceKept, ExecutedOnce, Received
  <1>12. FromCalls'
    <2>1. UNCHANGED Received
      BY <1>4 DEF Received
    <2> QED
      BY <1>1, <1>3, <1>5, <2>1, FromCallsMoves DEF Inv, IInv
  <1> QED
    BY <1>8, <1>9, <1>10, <1>11, <1>12 DEF Inv, IInv

\* So does an operation of a RemoteWallet, as it is signed.
LEMMA RemoteSignStep ==
    ASSUME Inv, NEW c \in Calls, RemoteSign(c)
    PROVE  Inv'
  <1> USE DEF Renumbered
  <1> DEFINE r == call[c].request
             signed == [request |-> r, nonce |-> account.nonce, fee |-> "quoted"]
             record == [pc |-> "submit", request |-> r, tx |-> signed]
  <1>1. r \in Requests /\ r \in RemoteRequests /\ call[c].pc = "sign"
    BY DEF RemoteSign, Requests
  <1>2. signed \in Tx /\ signed.request = r
    BY <1>1 DEF Inv, TypeOK, Tx, Fees
  <1>3. call' = [call EXCEPT ![c] = record]
    BY DEF RemoteSign
  <1>4. UNCHANGED <<params, account, pool, executed, rejected, foreign, failures, authVars, turnVars>>
    BY DEF RemoteSign, serverVars
  <1>5. record \in CallStates
    BY <1>1, <1>2 DEF CallStates, Pcs
  <1>6. record.pc = "submit" /\ record.request = r /\ record.tx = signed
    OBVIOUS
  <1> HIDE DEF record, signed, r
  <1>7. /\ call' \in [Calls -> CallStates]
        /\ call'[c] = record
        /\ \A d \in Calls \ {c} : call'[d] = call[d]
    BY <1>3, <1>5, CallsTyped DEF Inv
  <1>8. TypeOK'
    BY <1>4, <1>7, AuthUntouched DEF Inv, TypeOK
  <1>9. OneAttempt'
    BY <1>1, <1>3, <1>5, <1>6, AttemptMoves DEF Inv, IInv, r
  <1>10. StageInv'
    BY <1>1, <1>2, <1>4, <1>6, <1>7 DEF Inv, IInv, StageInv
  <1>11. NonceKept' /\ ExecutedOnce'
    BY <1>4 DEF Inv, IInv, NonceKept, ExecutedOnce, Received
  <1>12. FromCalls'
    <2>1. UNCHANGED Received
      BY <1>4 DEF Received
    <2> QED
      BY <1>1, <1>3, <1>5, <2>1, FromCallsMoves DEF Inv, IInv
  <1> QED
    BY <1>8, <1>9, <1>10, <1>11, <1>12 DEF Inv, IInv

\* The answer about the fee is written into the object.
LEMMA FeeAnswerStep ==
    ASSUME Inv, NEW c \in Calls, FeeAnswer(c)
    PROVE  Inv'
  <1> DEFINE r == call[c].request
             object == [params[r] EXCEPT !.fee = "quoted"]
             record == [call[c] EXCEPT !.pc = "sign"]
  <1>1. /\ r \in Requests /\ r \notin Renumbered
        /\ call[c].pc = "fee" /\ params[r].nonce # None
    BY DEF FeeAnswer, Inv, IInv, StageInv
  <1>2. object \in Params /\ object.nonce = params[r].nonce
    BY <1>1 DEF Inv, TypeOK, Params, Fees
  <1>3. params' = [params EXCEPT ![r] = object]
    BY DEF FeeAnswer
  <1>4. UNCHANGED <<account, pool, executed, rejected, foreign, failures, authVars, turnVars>>
    BY DEF FeeAnswer, serverVars
  <1>5. record \in CallStates /\ call' = [call EXCEPT ![c] = record]
    BY GotoRecord DEF FeeAnswer, Inv, Pcs
  <1>6. record.pc = "sign" /\ record.request = r
    BY DEF Inv, TypeOK, CallStates
  <1> HIDE DEF record, object, r
  <1>7. /\ call' \in [Calls -> CallStates]
        /\ call'[c] = record
        /\ \A d \in Calls \ {c} : call'[d] = call[d]
    BY <1>5, CallsTyped DEF Inv
  <1>8. /\ params' \in [Requests -> Params]
        /\ \A s \in Requests : params'[s].nonce = params[s].nonce
    BY <1>1, <1>2, <1>3, ParamsTyped DEF Inv
  <1>9. TypeOK'
    BY <1>4, <1>7, <1>8, AuthUntouched DEF Inv, TypeOK
  <1>10. OneAttempt'
    BY <1>1, <1>5, <1>6, AttemptMoves DEF Inv, IInv, r
  <1>11. StageInv'
    BY <1>1, <1>6, <1>7, <1>8 DEF Inv, IInv, StageInv, Tx, Renumbered
  <1>12. NonceKept' /\ ExecutedOnce'
    BY <1>4, <1>8 DEF Inv, IInv, TypeOK, NonceKept, ExecutedOnce, Received, Tx
  <1>13. FromCalls'
    <2>1. UNCHANGED Received
      BY <1>4 DEF Received
    <2> QED
      BY <1>1, <1>5, <2>1, FromCallsMoves DEF Inv, IInv
  <1> QED
    BY <1>9, <1>10, <1>11, <1>12, <1>13 DEF Inv, IInv

\* An attempt signs with the nonce its object has.
LEMMA SignStep ==
    ASSUME Inv, NEW c \in Calls, Sign(c)
    PROVE  Inv'
  <1> DEFINE r == call[c].request
             signed == [request |-> r, nonce |-> params[r].nonce, fee |-> params[r].fee]
  <1>1. /\ r \in Requests /\ r \notin Renumbered
        /\ call[c].pc = "sign" /\ params[r].nonce # None
    BY DEF Sign, Inv, IInv, StageInv
  <1>2. signed \in Tx /\ signed.request = r /\ signed.nonce = params[r].nonce
    BY <1>1 DEF Inv, TypeOK, Params, Tx
  <1>3. PICK there \in {"key", "submit"} :
            call' = [call EXCEPT ![c] = [pc |-> there, request |-> r, tx |-> signed]]
    BY DEF Sign
  <1>4. UNCHANGED <<params, account, pool, executed, rejected, foreign, failures, authVars, turnVars>>
    BY DEF Sign, serverVars
  <1> DEFINE record == [pc |-> there, request |-> r, tx |-> signed]
  <1>5. record \in CallStates
    BY <1>1, <1>2 DEF CallStates, Pcs
  <1>6. record.pc = there /\ record.request = r /\ record.tx = signed
    OBVIOUS
  <1>7. call' = [call EXCEPT ![c] = record]
    BY <1>3
  <1> HIDE DEF record, signed, r
  <1>8. /\ call' \in [Calls -> CallStates]
        /\ call'[c] = record
        /\ \A d \in Calls \ {c} : call'[d] = call[d]
    BY <1>5, <1>7, CallsTyped DEF Inv
  <1>9. TypeOK'
    BY <1>4, <1>8, AuthUntouched DEF Inv, TypeOK
  <1>10. OneAttempt'
    BY <1>1, <1>5, <1>6, <1>7, AttemptMoves DEF Inv, IInv, r
  <1>11. StageInv'
    BY <1>1, <1>2, <1>4, <1>6, <1>8 DEF Inv, IInv, StageInv
  <1>12. NonceKept' /\ ExecutedOnce'
    BY <1>4 DEF Inv, IInv, NonceKept, ExecutedOnce, Received
  <1>13. FromCalls'
    <2>1. UNCHANGED Received
      BY <1>4 DEF Received
    <2> QED
      BY <1>1, <1>5, <1>7, <2>1, FromCallsMoves DEF Inv, IInv
  <1> QED
    BY <1>9, <1>10, <1>11, <1>12, <1>13 DEF Inv, IInv

\* The rest of a call touches neither its object nor what the server has received,
\* but for the transaction it submits.
LEMMA OtherStep ==
    ASSUME Inv, NEW c \in Calls,
           CheckKey(c) \/ SignBatch(c) \/ Receive(c) \/ Resolve(c) \/ Fail(c)
    PROVE  Inv'
  <1> USE DEF CheckKey, SignBatch, Receive, Resolve, Fail
  <1>1. PICK there \in {"submit", "answer", "done", "failed"} :
            /\ Goto(c, there)
            /\ there = "submit" =>
                call[c].pc = "key" \/ (call[c].pc = "sign" /\ call[c].request \in Batches)
            /\ call[c].pc = "answer" => there \in {"done", "failed"}
            /\ Receive(c) => there = "answer"
    OBVIOUS
  <1>2. call[c].pc \notin Over /\ UNCHANGED params
    BY DEF Over
  <1>3. call' \in [Calls -> CallStates] /\ OneAttempt' /\ StageInv'
    BY <1>1, <1>2, GotoKeeps
  <1>4. UNCHANGED <<account, executed, rejected, foreign, authVars, turnVars>>
    BY DEF serverVars
  <1>5. failures' \in 0 .. MaxFailures
    BY SubmissionAssumption DEF Inv, TypeOK
  <1>6. pool' = pool \/ (Receive(c) /\ pool' = pool \cup ({call[c].tx} \ (executed \cup rejected)))
    BY DEF serverVars
  <1>6a. Receive(c) =>
            /\ call[c].tx \in Tx /\ call[c].tx.request = call[c].request
            /\ call[c].request \notin Renumbered =>
                    call[c].tx.nonce = params[call[c].request].nonce
    BY DEF Inv, IInv, StageInv
  <1>7. TypeOK'
    <2>1. params' \in [Requests -> Params] /\ pool' \subseteq Tx
      BY <1>2, <1>6, <1>6a DEF Inv, TypeOK
    <2> QED
      BY <1>3, <1>4, <1>5, <2>1, AuthUntouched DEF Inv, TypeOK
  <1>8. NonceKept' /\ ExecutedOnce'
    BY <1>2, <1>4, <1>6, <1>6a DEF Inv, IInv, NonceKept, ExecutedOnce, Received
  <1>9. FromCalls'
    <2> DEFINE record == [call[c] EXCEPT !.pc = there]
    <2>1. record \in CallStates /\ call' = [call EXCEPT ![c] = record]
      <3>1. there \in Pcs
        BY DEF Pcs
      <3> QED
        BY ONLY <1>1, <3>1, Inv, c \in Calls, GotoRecord DEF Inv
    <2>2. record.pc = there /\ record.request = call[c].request /\ record.tx = call[c].tx
      BY DEF Inv, TypeOK, CallStates
    <2> HIDE DEF record
    <2>3. CASE pool' = pool
      <3>1. UNCHANGED Received
        BY <1>4, <2>3 DEF Received
      <3> QED
        BY <1>1, <1>2, <2>1, <2>2, <3>1, FromCallsMoves DEF Inv, IInv, Over
    <2>4. CASE Receive(c) /\ pool' = pool \cup ({call[c].tx} \ (executed \cup rejected))
      <3>1. /\ call'[c] = record
            /\ \A d \in Calls \ {c} : call'[d] = call[d]
        BY <2>1, CallsTyped DEF Inv
      <3>2. record.pc = "answer" /\ call[c].pc = "submit"
        BY <1>1, <2>2, <2>4
      <3>3. \A tx \in Received' : tx \in Received \/ tx = call[c].tx
        BY <1>4, <2>4 DEF Received
      <3> QED
        BY <1>6a, <2>2, <2>4, <3>1, <3>2, <3>3 DEF Inv, IInv, FromCalls
    <2> QED
      BY <1>6, <2>3, <2>4
  <1> QED
    BY <1>3, <1>7, <1>8, <1>9 DEF Inv, IInv

\* The server's nonce passes every transaction it executes.
LEMMA ServerStep ==
    ASSUME Inv, (\E tx \in pool : Execute(tx) \/ Reject(tx)) \/ ExecuteForeign
    PROVE  Inv'
  <1>1. UNCHANGED <<params, call, failures, authVars, turnVars>>
    BY DEF Execute, Reject, ExecuteForeign
  <1>2. OneAttempt' /\ StageInv'
    BY <1>1 DEF Inv, IInv, OneAttempt, StageInv
  <1>2a. FromCalls'
    <2>1. Received' \subseteq Received
      BY DEF Execute, Reject, ExecuteForeign, Received
    <2> QED
      BY <1>1, <2>1 DEF Inv, IInv, FromCalls
  <1>2b. AuthTypeOK'
    BY <1>1, AuthUntouched DEF Inv
  <1>3. CASE \E tx \in pool : Execute(tx)
    <2> PICK tx \in pool : Execute(tx)
      BY <1>3
    <2>1. tx \in Tx /\ tx.nonce = account.nonce /\ account.nonce \in Nat
      BY DEF Execute, Inv, TypeOK
    <2>2. /\ account' \in [nonce : Nat, keySet : BOOLEAN]
          /\ account'.nonce > account.nonce
      BY <2>1, SubmissionAssumption DEF Execute, Size, Inv, TypeOK
    <2>3. /\ UNCHANGED <<foreign, rejected>>
          /\ pool' = pool \ {tx}
          /\ executed' = executed \cup {tx}
      BY DEF Execute
    <2>4. TypeOK'
      BY <1>1, <1>2b, <2>1, <2>2, <2>3 DEF Inv, TypeOK
    <2>5. NonceKept'
      BY <1>1, <2>3 DEF Inv, IInv, NonceKept, Received
    <2>6. \A t \in executed : t.nonce \in Nat /\ t.nonce < account.nonce
      BY DEF Inv, IInv, TypeOK, ExecutedOnce, Tx
    <2>7. \A t \in executed' : t.nonce < account'.nonce
      BY <2>1, <2>2, <2>3, <2>6
    <2>8. \A t, u \in executed' : t.nonce = u.nonce => t = u
      BY <2>1, <2>3, <2>6 DEF Inv, IInv, ExecutedOnce
    <2>9. ExecutedOnce'
      BY <2>7, <2>8 DEF ExecutedOnce
    <2> QED
      BY <1>2, <1>2a, <2>4, <2>5, <2>9 DEF Inv, IInv
  <1>4. CASE \E tx \in pool : Reject(tx)
    <2>1. /\ UNCHANGED <<account, executed, foreign>>
          /\ pool' \subseteq pool
          /\ rejected' \subseteq rejected \cup pool
      BY <1>4 DEF Reject
    <2>2. TypeOK'
      BY <1>1, <1>2b, <2>1 DEF Inv, TypeOK
    <2>3. NonceKept' /\ ExecutedOnce'
      BY <1>1, <2>1 DEF Inv, IInv, NonceKept, ExecutedOnce, Received
    <2> QED
      BY <1>2, <1>2a, <2>2, <2>3 DEF Inv, IInv
  <1>5. CASE ExecuteForeign
    <2>1. /\ account' \in [nonce : Nat, keySet : BOOLEAN]
          /\ account'.nonce = account.nonce + 1 /\ account.nonce \in Nat
          /\ foreign' \in 0 .. MaxForeign
          /\ UNCHANGED <<pool, executed, rejected>>
      BY <1>5, SubmissionAssumption DEF ExecuteForeign, Inv, TypeOK
    <2>2. TypeOK'
      BY <1>1, <1>2b, <2>1 DEF Inv, TypeOK
    <2>3. NonceKept'
      BY <1>1, <2>1 DEF Inv, IInv, NonceKept, Received
    <2>4. \A t \in executed : t.nonce \in Nat /\ t.nonce < account.nonce
      BY DEF Inv, IInv, TypeOK, ExecutedOnce, Tx
    <2>5. ExecutedOnce'
      BY <2>1, <2>4 DEF Inv, IInv, ExecutedOnce
    <2> QED
      BY <1>2, <1>2a, <2>2, <2>3, <2>5 DEF Inv, IInv
  <1> QED
    BY <1>3, <1>4, <1>5

\* An authorisation changes nothing that the calls rely on.
LEMMA AuthoriseStep ==
    ASSUME Inv, Authorise
    PROVE  Inv'
  <1>1. UNCHANGED <<params, call, serverVars>>
    BY DEF Authorise, AuthCall, AuthKeyAnswer, AuthNonceAnswer, AuthMined, AuthFails
  <1>2. IInv'
    BY <1>1 DEF Inv, IInv, serverVars, OneAttempt, StageInv, NonceKept, FromCalls,
                ExecutedOnce, Received
  <1>3. /\ auth' \in AuthCalls
        /\ authFacts' \subseteq Nat /\ auths' \in 0 .. MaxAuths
        /\ failures' \in 0 .. MaxFailures
    BY SubmissionAssumption
       DEF Authorise, AuthCall, AuthKeyAnswer, AuthNonceAnswer, AuthMined, AuthFails, Inv,
           TypeOK, AuthTypeOK, AuthCalls
  <1>4. authorised' \in BOOLEAN /\ outOfTurn' \in BOOLEAN
    <2>1. \/ UNCHANGED turnVars
          \/ authorised' = FALSE /\ outOfTurn' = (outOfTurn \/ ~AllSeen)
          \/ authorised' = TRUE /\ outOfTurn' = outOfTurn
      BY DEF Authorise, AuthCall, AuthKeyAnswer, AuthNonceAnswer, AuthMined, AuthFails
    <2>2. authorised \in BOOLEAN /\ outOfTurn \in BOOLEAN
      BY DEF Inv, TypeOK, AuthTypeOK
    <2> QED
      BY <2>1, <2>2 DEF turnVars
  <1> QED
    BY <1>1, <1>2, <1>3, <1>4 DEF Inv, TypeOK, AuthTypeOK, serverVars
-----------------------------------------------------------------------------
(***************************************************************************)
(* The theorems.                                                           *)
(***************************************************************************)

\* The inductive invariant: a request has one live attempt, the nonce its object got
\* first is that of every transaction made from it unless it is a batch, the server
\* executes a nonce once, and has from calls what it has.
THEOREM InductiveInvariant == Spec => []Inv
<1>1. Inv /\ [Next]_vars => Inv'
  <2> SUFFICES ASSUME Inv, [Next]_vars PROVE Inv'
    OBVIOUS
  <2>1. CASE \E c \in Calls, r \in Requests : Call(c, r)
    BY <2>1, CallStep
  <2>2. CASE \E c \in Calls : NonceAnswer(c)
    BY <2>2, NonceAnswerStep
  <2>2a. CASE \E c \in Calls : BatchNonceAnswer(c)
    BY <2>2a, BatchNonceAnswerStep
  <2>2b. CASE \E c \in Calls : RemoteSign(c)
    BY <2>2b, RemoteSignStep
  <2>3. CASE \E c \in Calls : FeeAnswer(c)
    BY <2>3, FeeAnswerStep
  <2>4. CASE \E c \in Calls : Sign(c)
    BY <2>4, SignStep
  <2>5. CASE \E c \in Calls :
                CheckKey(c) \/ SignBatch(c) \/ Receive(c) \/ Resolve(c) \/ Fail(c)
    BY <2>5, OtherStep
  <2>6. CASE (\E tx \in pool : Execute(tx) \/ Reject(tx)) \/ ExecuteForeign
    BY <2>6, ServerStep
  <2>7. CASE UNCHANGED vars
    BY <2>7 DEF vars, serverVars, authVars, turnVars, Inv, TypeOK, AuthTypeOK, IInv,
                OneAttempt, StageInv, NonceKept, FromCalls, ExecutedOnce, Received
  <2>8. CASE Authorise
    BY <2>8, AuthoriseStep
  <2> QED
    BY <2>8, <2>1, <2>2, <2>2a, <2>2b, <2>3, <2>4, <2>5, <2>6, <2>7 DEF Next
<1> QED
  BY <1>1, InitInv, PTL DEF Spec

\* The variables of Submission stay in their types.
THEOREM TypeCorrect == Spec => []TypeOK
<1>1. Inv => TypeOK
  BY DEF Inv
<1> QED
  BY <1>1, InductiveInvariant, PTL

\* A program that calls again with the same object, after whatever failure, has the
\* request executed once at most; but for a batch and a RemoteWallet, and then only if
\* an attempt at it has failed that the server had received.
THEOREM RequestPaysOnce == Spec => []PaysOnce
<1>1. Inv => PaysOnce
  <2> SUFFICES ASSUME Inv, NEW t \in executed, NEW u \in executed,
                      t.request = u.request, t # u
               PROVE  /\ t.request \in Renumbered
                      /\ \E c \in Calls : call[c].pc = "failed" /\ call[c].tx \in {t, u}
    BY DEF PaysOnce
  <2>1. t.request \in Renumbered
    <3>1. t.request \notin Renumbered => t.nonce = u.nonce
      BY DEF Inv, IInv, NonceKept, Received
    <3> QED
      BY <3>1 DEF Inv, IInv, ExecutedOnce
  <2>2. PICK c, d : /\ c \in Calls /\ d \in Calls
                    /\ call[c].pc \in {"answer", "done", "failed"} /\ call[c].tx = t
                    /\ call[d].pc \in {"answer", "done", "failed"} /\ call[d].tx = u
                    /\ call[c].request = t.request /\ call[d].request = u.request
    BY DEF Inv, IInv, FromCalls, Received
  <2>3. \E e \in {c, d} : call[e].pc \in {"idle", "failed"}
    BY <2>2 DEF Inv, IInv, OneAttempt
  <2> QED
    BY <2>1, <2>2, <2>3
<1> QED
  BY <1>1, InductiveInvariant, PTL

-----------------------------------------------------------------------------
(***************************************************************************)
(* The fees of transfers.                                                  *)
(***************************************************************************)

\* A call that moves on keeps FeeInv if it signs a transfer only with the fee asked for.
LEMMA FeeMoves ==
    ASSUME Inv, FeeInv, NEW c \in Calls, NEW record \in CallStates,
           call' = [call EXCEPT ![c] = record],
           \A r \in Transfers : params'[r].fee \in {params[r].fee, "quoted"},
           record.pc = "sign" /\ record.request \in Transfers
                => params'[record.request].fee = "quoted",
           record.tx \in Tx /\ record.tx.request \in Transfers => record.tx.fee = "quoted",
           \/ Received' = Received
           \/ call[c].pc = "submit" /\ Received' \subseteq Received \cup {call[c].tx}
    PROVE  FeeInv'
<1>1. call'[c] = record /\ \A d \in Calls \ {c} : call'[d] = call[d]
  BY CallsTyped DEF Inv
<1>2. call[c].pc = "submit" => call[c].tx \in Tx
  BY DEF Inv, IInv, StageInv
<1>3. TransferFeeIsQuoted'
  BY <1>2 DEF FeeInv, TransferFeeIsQuoted
<1> QED
  BY <1>1, <1>3 DEF FeeInv

\* The calls write no fee into the object of a transfer but the one asked for.
LEMMA FeeCallStep ==
    ASSUME Inv, FeeInv, NEW c \in Calls,
           \/ \E r \in Requests : Call(c, r)
           \/ NonceAnswer(c) \/ FeeAnswer(c)
    PROVE  FeeInv'
<1> USE SubmissionAssumption DEF Requests, Renumbered
<1>1. /\ params \in [Requests -> Params] /\ call[c] \in CallStates
      /\ \A r \in Transfers : FeeWhileAsking(r) = params[r].fee
      /\ \A r \in Transfers : params[r].fee \in {"unset", "quoted"}
  BY DEF Inv, TypeOK, FeeWhileAsking, FeeInv, Params, Fees
<1>2. Received' = Received
  BY DEF Call, NonceAnswer, FeeAnswer, serverVars, Received
<1>3. ASSUME NEW r \in Requests, Call(c, r) PROVE FeeInv'
  <2>1. PICK there \in {"sign", "nonce", AfterNonce(r)} :
          /\ call' = [call EXCEPT ![c] = [call[c] EXCEPT !.pc = there, !.request = r]]
          /\ r \in Transfers => there # "sign" \/ params[r].fee # "unset"
    BY <1>3 DEF Call, AfterNonce
  <2>2. \A s \in Transfers : params'[s].fee = params[s].fee
    <3>1. \/ UNCHANGED params
          \/ params' = [params EXCEPT ![r].fee = FeeWhileAsking(r)]
      BY <1>3 DEF Call
    <3> QED
      BY ONLY <1>1, <3>1, Transfers \subseteq Requests DEF Params
  <2> DEFINE record == [call[c] EXCEPT !.pc = there, !.request = r]
  <2>3. /\ record \in CallStates /\ record.request = r /\ record.pc = there
        /\ record.tx = call[c].tx
    BY <1>1, <2>1 DEF CallStates, Pcs, AfterNonce
  <2> HIDE DEF record
  <2>4. call' = [call EXCEPT ![c] = record]
    BY <2>1 DEF record
  <2>5. record.tx \in Tx /\ record.tx.request \in Transfers => record.tx.fee = "quoted"
    BY <2>3 DEF FeeInv
  <2>6. record.pc = "sign" /\ record.request \in Transfers
            => params'[record.request].fee = "quoted"
    BY <1>1, <2>1, <2>2, <2>3
  <2>7. \A s \in Transfers : params'[s].fee \in {params[s].fee, "quoted"}
    BY <2>2
  <2> QED
    BY ONLY Inv, FeeInv, c \in Calls, <1>2, <2>3, <2>4, <2>5, <2>6, <2>7, FeeMoves
<1>4. CASE NonceAnswer(c) \/ FeeAnswer(c)
  <2> DEFINE r == call[c].request
  <2>1. PICK there \in {"sign", "fee"} :
          /\ Goto(c, there)
          /\ r \in Transfers => there # "sign" \/ params'[r].fee = "quoted"
    BY <1>1, <1>4 DEF NonceAnswer, FeeAnswer, AfterNonce, Inv, TypeOK, Params
  <2>2. \A s \in Transfers : params'[s].fee \in {params[s].fee, "quoted"}
    BY <1>1, <1>4 DEF NonceAnswer, FeeAnswer, Params
  <2> DEFINE record == [call[c] EXCEPT !.pc = there]
  <2>3. record \in CallStates /\ call' = [call EXCEPT ![c] = record]
    <3>1. there \in Pcs
      BY DEF Pcs
    <3> QED
      BY ONLY <2>1, <3>1, Inv, c \in Calls, GotoRecord DEF Inv
  <2>4. record.request = r /\ record.pc = there /\ record.tx = call[c].tx
    BY <1>1 DEF CallStates
  <2> HIDE DEF record
  <2>5. record.tx \in Tx /\ record.tx.request \in Transfers => record.tx.fee = "quoted"
    BY <2>4 DEF FeeInv
  <2>6. record.pc = "sign" /\ record.request \in Transfers
            => params'[record.request].fee = "quoted"
    BY <2>1, <2>4
  <2> QED
    BY ONLY Inv, FeeInv, c \in Calls, <1>2, <2>2, <2>3, <2>4, <2>5, <2>6, FeeMoves
<1> QED
  BY <1>3, <1>4

\* What is signed has the fee of its object, or the one the external signer asked for.
LEMMA FeeSignStep ==
    ASSUME Inv, FeeInv, NEW c \in Calls, Sign(c) \/ BatchNonceAnswer(c) \/ RemoteSign(c)
    PROVE  FeeInv'
<1> DEFINE r == call[c].request
<1>1. UNCHANGED <<params, Received>>
  BY DEF Sign, BatchNonceAnswer, RemoteSign, serverVars, Received
<1>2. r \in Requests
  BY DEF Sign, BatchNonceAnswer, RemoteSign, Inv, IInv, StageInv
<1>3. ASSUME NEW there \in {"sign", "key", "submit"}, NEW tx \in Tx,
             tx.request = r, r \in Transfers => tx.fee = "quoted",
             there = "sign" => r \in Batches,
             call' = [call EXCEPT ![c] = [pc |-> there, request |-> r, tx |-> tx]]
      PROVE  FeeInv'
  <2> DEFINE record == [pc |-> there, request |-> r, tx |-> tx]
  <2>1. record \in CallStates
    BY <1>2 DEF CallStates, Pcs
  <2>2. /\ record.pc = "sign" => record.request \notin Transfers
        /\ record.tx \in Tx /\ record.tx.request \in Transfers => record.tx.fee = "quoted"
    BY <1>3, SubmissionAssumption DEF Renumbered
  <2>3. call' = [call EXCEPT ![c] = record]
    BY <1>3
  <2> HIDE DEF record
  <2> QED
    BY <1>1, <2>1, <2>2, <2>3, FeeMoves
<1>4. CASE Sign(c)
  <2>1. r \in Transfers => params[r].fee = "quoted"
    BY <1>4 DEF Sign, FeeInv
  <2>2. [request |-> r, nonce |-> params[r].nonce, fee |-> params[r].fee] \in Tx
    BY <1>2, <1>4 DEF Sign, Inv, IInv, StageInv, TypeOK, Params, Tx, None
  <2> QED
    BY <1>3, <1>4, <2>1, <2>2 DEF Sign
<1>5. CASE BatchNonceAnswer(c)
  <2>1. [request |-> r, nonce |-> FirstNonce(r), fee |-> "quoted"] \in Tx
    BY <1>2 DEF FirstNonce, Inv, TypeOK, Params, Tx, None, Fees
  <2> QED
    BY <1>3, <1>5, <2>1 DEF BatchNonceAnswer
<1>6. CASE RemoteSign(c)
  <2>1. [request |-> r, nonce |-> account.nonce, fee |-> "quoted"] \in Tx
    BY <1>2 DEF Inv, TypeOK, Tx, Fees
  <2> QED
    BY <1>3, <1>6, <2>1 DEF RemoteSign
<1> QED
  BY <1>4, <1>5, <1>6

\* The rest of a call changes no fee.
LEMMA FeeOtherStep ==
    ASSUME Inv, FeeInv, NEW c \in Calls,
           CheckKey(c) \/ SignBatch(c) \/ Receive(c) \/ Resolve(c) \/ Fail(c)
    PROVE  FeeInv'
<1>1. PICK there \in {"submit", "answer", "done", "failed"} : Goto(c, there)
  BY DEF CheckKey, SignBatch, Receive, Resolve, Fail
<1> DEFINE record == [call[c] EXCEPT !.pc = there]
<1>2. record \in CallStates /\ call' = [call EXCEPT ![c] = record]
  <2>1. there \in Pcs
    BY DEF Pcs
  <2> QED
    BY <1>1, <2>1, GotoRecord DEF Inv
<1>3. record.pc = there /\ record.tx = call[c].tx
  BY DEF Inv, TypeOK, CallStates
<1> HIDE DEF record
<1>4. record.tx \in Tx /\ record.tx.request \in Transfers => record.tx.fee = "quoted"
  BY <1>3 DEF FeeInv
<1>5. UNCHANGED params
  BY DEF CheckKey, SignBatch, Receive, Resolve, Fail
<1>6. \/ Received' = Received
      \/ call[c].pc = "submit" /\ Received' \subseteq Received \cup {call[c].tx}
  BY DEF CheckKey, SignBatch, Receive, Resolve, Fail, serverVars, Received
<1> QED
  BY <1>2, <1>3, <1>4, <1>5, <1>6, FeeMoves

\* The fee a program leaves out of a transfer is the fee the server asks for, in the
\* transaction of every attempt.
THEOREM TransfersPayTheQuote == Spec => []TransferFeeIsQuoted
<1>1. Init => FeeInv
  <2> SUFFICES ASSUME Init PROVE FeeInv
    OBVIOUS
  <2>1. \A r \in Transfers : params[r].fee = "unset"
    BY DEF Init, Requests
  <2>2. \A c \in Calls : call[c].pc = "idle" /\ call[c].tx = NoTx
    BY DEF Init
  <2>3. NoTx \notin Tx
    BY DEF NoTx, Tx, None
  <2>4. Received = {}
    BY DEF Init, Received
  <2> QED
    BY <2>1, <2>2, <2>3, <2>4 DEF FeeInv, TransferFeeIsQuoted
<1>2. Inv /\ FeeInv /\ [Next]_vars => FeeInv'
  <2> SUFFICES ASSUME Inv, FeeInv, [Next]_vars PROVE FeeInv'
    OBVIOUS
  <2>1. CASE \E c \in Calls :
                \/ \E r \in Requests : Call(c, r)
                \/ NonceAnswer(c) \/ FeeAnswer(c)
    BY <2>1, FeeCallStep
  <2>2. CASE \E c \in Calls : Sign(c) \/ BatchNonceAnswer(c) \/ RemoteSign(c)
    BY <2>2, FeeSignStep
  <2>3. CASE \E c \in Calls :
                CheckKey(c) \/ SignBatch(c) \/ Receive(c) \/ Resolve(c) \/ Fail(c)
    BY <2>3, FeeOtherStep
  <2>4. CASE \/ \E tx \in pool : Execute(tx) \/ Reject(tx)
             \/ ExecuteForeign \/ Authorise \/ UNCHANGED vars
    <3>1. UNCHANGED <<params, call>>
      BY <2>4 DEF Execute, Reject, ExecuteForeign, Authorise, AuthCall, AuthKeyAnswer,
                  AuthNonceAnswer, AuthMined, AuthFails, vars
    <3>2. Received' \subseteq Received
      BY <2>4 DEF Execute, Reject, ExecuteForeign, Authorise, AuthCall, AuthKeyAnswer,
                  AuthNonceAnswer, AuthMined, AuthFails, vars, serverVars, Received
    <3> QED
      BY <3>1, <3>2 DEF FeeInv, TransferFeeIsQuoted
  <2> QED
    BY <2>1, <2>2, <2>3, <2>4 DEF Next
<1>3. FeeInv => TransferFeeIsQuoted
  BY DEF FeeInv
<1> QED
  BY <1>1, <1>2, <1>3, InductiveInvariant, PTL DEF Spec

-----------------------------------------------------------------------------
(***************************************************************************)
(* The program that waits: one lemma for each kind of step it can take     *)
(* while nothing disturbs it.                                              *)
(***************************************************************************)

\* Once disturbed, always disturbed; and what disturbs is none of the steps below.
LEMMA UndisturbedBefore ==
    ASSUME Inv, [Next]_vars, Undisturbed'
    PROVE  /\ Undisturbed
           /\ ~AuthFails /\ ~ExecuteForeign
           /\ \A c \in Calls : ~Fail(c)
<1>1. outOfTurn \in BOOLEAN /\ failures \in Nat /\ foreign \in Nat
  BY SubmissionAssumption DEF Inv, TypeOK, AuthTypeOK
<1>2. ~AuthFails /\ ~ExecuteForeign /\ \A c \in Calls : ~Fail(c)
  BY <1>1 DEF AuthFails, ExecuteForeign, Fail, Undisturbed
<1>3. UNCHANGED <<failures, foreign>> /\ ~outOfTurn
  <2>1. CASE UNCHANGED vars
    BY <2>1 DEF vars, serverVars, turnVars, Undisturbed
  <2>2. CASE \E c \in Calls, r \in Requests : Call(c, r)
    BY <2>2 DEF Call, serverVars, Undisturbed
  <2>3. CASE \E c \in Calls :
                \/ NonceAnswer(c) \/ BatchNonceAnswer(c) \/ FeeAnswer(c)
                \/ Sign(c) \/ SignBatch(c) \/ RemoteSign(c) \/ CheckKey(c)
                \/ Receive(c) \/ Resolve(c)
    BY <2>3 DEF NonceAnswer, BatchNonceAnswer, FeeAnswer, Sign, SignBatch, RemoteSign,
                CheckKey, Receive, Resolve, serverVars, turnVars, Undisturbed
  <2>4. CASE \E tx \in pool : Execute(tx) \/ Reject(tx)
    BY <2>4 DEF Execute, Reject, turnVars, Undisturbed
  <2>5. CASE AuthCall
    BY <2>5 DEF AuthCall, serverVars, Undisturbed
  <2>6. CASE AuthKeyAnswer \/ AuthNonceAnswer \/ AuthMined
    BY <2>6 DEF AuthKeyAnswer, AuthNonceAnswer, AuthMined, serverVars, turnVars, Undisturbed
  <2> QED
    BY <1>2, <2>1, <2>2, <2>3, <2>4, <2>5, <2>6 DEF Next, Authorise
<1>4. ASSUME NEW r \in Batches PROVE params[r].nonce = None
  <2>1. params \in [Requests -> Params] /\ r \in Requests /\ params'[r].nonce = None
    BY DEF Inv, TypeOK, Undisturbed, Requests, Renumbered
  <2>2. CASE UNCHANGED params
    BY <2>1, <2>2
  <2>3. ASSUME NEW c \in Calls, NEW s \in Requests, Call(c, s) PROVE params[r].nonce = None
    BY <2>1, <2>3 DEF Call, Params
  <2>4. ASSUME NEW c \in Calls, NonceAnswer(c) PROVE params[r].nonce = None
    BY <2>1, <2>4 DEF NonceAnswer
  <2>5. ASSUME NEW c \in Calls, FeeAnswer(c) PROVE params[r].nonce = None
    BY <2>1, <2>5 DEF FeeAnswer, Params
  <2>6. UNCHANGED params \/ \E c \in Calls : \/ \E s \in Requests : Call(c, s)
                                             \/ NonceAnswer(c) \/ FeeAnswer(c)
    BY DEF Next, vars, BatchNonceAnswer, Sign, SignBatch, RemoteSign, CheckKey, Receive,
           Resolve, Fail, Execute, Reject, ExecuteForeign, Authorise, AuthCall,
           AuthKeyAnswer, AuthNonceAnswer, AuthMined, AuthFails
  <2> QED
    BY <2>2, <2>3, <2>4, <2>5, <2>6
<1> QED
  BY <1>2, <1>3, <1>4 DEF Undisturbed

\* What the one live call has to show when it moves on and the server does not.
LEMMA LiveCallMoves ==
    ASSUME Inv, Orderly, NEW c \in Live, NEW record \in CallStates,
           call' = [call EXCEPT ![c] = record],
           record.request = call[c].request, record.pc # "idle",
           UNCHANGED <<serverVars, authVars, turnVars>>,
           call[c].pc # "answer" \/ record.pc = "done",
           record.pc \in {"done", "failed"} \/ CallInOrder(c)',
           record.pc = "failed" => record.request \in KeyChanges /\ account.keySet,
           \A r \in Transfers \cup KeyChanges :
                r # record.request => params'[r].nonce = params[r].nonce
    PROVE  Orderly'
<1>1. /\ c \in Calls
      /\ call'[c] = record
      /\ \A d \in Calls \ {c} : call'[d] = call[d]
  BY CallsTyped DEF Inv, Live
<1>2. Live = {c}
  BY DEF Orderly, OneAtATime
<1>3. /\ Live' \subseteq {c}
      /\ c \in Live' => record.pc \notin {"done", "failed"}
  BY <1>1, <1>2 DEF Live
<1>4. UNCHANGED <<account, pool, executed, rejected, auth, authFacts, authorised>>
  BY DEF serverVars, authVars, turnVars
<1>5. OneAtATime'
  <2>1. auth.pc = "idle" /\ ~authorised
    BY <1>2 DEF Orderly, OneAtATime
  <2>2. c \in Live' => pool = {}
    BY <1>3 DEF Orderly, OneAtATime
  <2>3. \A t, u \in pool : t = u
    BY DEF Orderly, OneAtATime
  <2> QED
    BY <1>3, <1>4, <2>1, <2>2, <2>3 DEF OneAtATime
<1>6. ObjectsTried'
  <2>1. ASSUME NEW r \in Transfers \cup KeyChanges, params'[r].nonce # None
        PROVE  \E d \in Calls : call'[d].pc # "idle" /\ call'[d].request = r
    <3>1. CASE r = record.request
      BY <1>1, <3>1
    <3>2. CASE r # record.request
      <4>1. PICK d \in Calls : call[d].pc # "idle" /\ call[d].request = r
        BY <2>1, <3>2 DEF Orderly, ObjectsTried
      <4> QED
        BY <1>1, <3>2, <4>1
    <3> QED
      BY <3>1, <3>2
  <2>2. \A d \in Calls : call'[d].pc = "failed" =>
            call'[d].request \in KeyChanges /\ account'.keySet
    BY <1>1, <1>4 DEF Orderly, ObjectsTried
  <2> QED
    BY <2>1, <2>2 DEF ObjectsTried
<1>7. KeyPaidOnce' /\ rejected' = {}
  BY <1>4 DEF Orderly, KeyPaidOnce
<1>8. \A d \in Live' : CallInOrder(d)'
  BY <1>3
<1>9. \A tx \in pool' : TxInOrder(tx)'
  BY <1>4 DEF Orderly, TxInOrder, Unauthorised
<1> QED
  BY <1>5, <1>6, <1>7, <1>8, <1>9 DEF Orderly

\* A program that waits finds the field free: no call, no transaction, no authorisation.
LEMMA CallInTurn ==
    ASSUME Inv, Orderly, Undisturbed', NEW c \in Calls, NEW r \in Requests, Call(c, r)
    PROVE  Orderly'
<1>1. AllSeen /\ (r \in OnchainKeyChanges => OnchainAuthSigningKeySet)
  BY DEF Call, Undisturbed, InTurn, Orderly, OneAtATime
<1>2. PICK there \in {"nonce", "fee", "sign"} :
          /\ call' = [call EXCEPT ![c] = [call[c] EXCEPT !.pc = there, !.request = r]]
          /\ there \in {"fee", "sign"} /\ r \notin Renumbered => params[r].nonce # None
          /\ r \in Batches => there = "nonce"
  BY SubmissionAssumption DEF Call, AfterNonce, Renumbered
<1> DEFINE record == [call[c] EXCEPT !.pc = there, !.request = r]
<1>3. /\ record \in CallStates
      /\ record.pc = there /\ record.request = r
  BY DEF Inv, TypeOK, CallStates, Pcs
<1>4. call' = [call EXCEPT ![c] = record]
  BY <1>2
<1> HIDE DEF record
<1>5. call'[c] = record /\ \A d \in Calls \ {c} : call'[d] = call[d]
  BY <1>3, <1>4, CallsTyped DEF Inv
<1>6. /\ call[c].pc = "idle" /\ Free(r)
      /\ UNCHANGED <<account, pool, executed, rejected, auth, authFacts>>
      /\ ~authorised'
  BY DEF Call, serverVars, authVars
<1>7. \A s \in Requests : params'[s].nonce = params[s].nonce
  BY DEF Call, Inv, TypeOK, Params
<1>8. Live = {} /\ pool = {} /\ auth.pc = "idle"
  BY <1>1 DEF AllSeen, Live
<1>9. Live' = {c}
  BY <1>3, <1>5, <1>8 DEF Live
<1>10. OneAtATime'
  BY <1>6, <1>8, <1>9 DEF OneAtATime
<1>11. ObjectsTried'
  <2>1. \A s \in Transfers \cup KeyChanges : params'[s].nonce # None =>
          \E d \in Calls : call'[d].pc # "idle" /\ call'[d].request = s
    BY <1>5, <1>6, <1>7 DEF Orderly, ObjectsTried, Requests
  <2>2. \A d \in Calls : call'[d].pc = "failed" =>
          call'[d].request \in KeyChanges /\ account'.keySet
    BY <1>3, <1>5, <1>6 DEF Orderly, ObjectsTried
  <2> QED
    BY <2>1, <2>2 DEF ObjectsTried
<1>12. CallInOrder(c)'
  <2>1. r \notin Renumbered /\ params[r].nonce # None => r \in KeyChanges /\ account.keySet
    <3> SUFFICES ASSUME r \notin Renumbered, params[r].nonce # None
                 PROVE  r \in KeyChanges /\ account.keySet
      OBVIOUS
    <3>1. PICK d \in Calls : call[d].pc # "idle" /\ call[d].request = r
      BY DEF Orderly, ObjectsTried, Requests
    <3>2. call[d].pc = "failed"
      BY <1>6, <3>1 DEF Free
    <3> QED
      BY <3>1, <3>2 DEF Orderly, ObjectsTried
  <2>2. OnchainAuthSigningKeySet' = OnchainAuthSigningKeySet
    BY <1>6 DEF OnchainAuthSigningKeySet
  <2> QED
    BY <1>1, <1>2, <1>3, <1>5, <1>6, <2>1, <2>2 DEF CallInOrder
<1>13. KeyPaidOnce' /\ rejected' = {}
  BY <1>6 DEF Orderly, KeyPaidOnce
<1> QED
  BY <1>6, <1>8, <1>9, <1>10, <1>11, <1>12, <1>13 DEF Orderly

\* The answers give the committed nonce, and it is still that when the call signs.
LEMMA AnswersInTurn ==
    ASSUME Inv, Orderly, Undisturbed, NEW c \in Calls,
           NonceAnswer(c) \/ BatchNonceAnswer(c) \/ FeeAnswer(c)
    PROVE  Orderly'
<1> DEFINE r == call[c].request
<1>1. /\ c \in Live /\ r \in Requests
      /\ call[c].pc \in {"nonce", "fee"}
      /\ r \in OnchainKeyChanges => OnchainAuthSigningKeySet
      /\ call[c].pc = "fee" =>
            r \notin Renumbered /\ (params[r].nonce = account.nonce \/ (r \in KeyChanges /\ account.keySet))
  <2>1. c \in Live /\ call[c].pc \in {"nonce", "fee"}
    BY DEF NonceAnswer, BatchNonceAnswer, FeeAnswer, Live
  <2>2. r \in Requests /\ (call[c].pc = "fee" => r \notin Renumbered)
    BY <2>1 DEF Inv, IInv, StageInv
  <2>3. CallInOrder(c)
    BY <2>1 DEF Orderly
  <2> QED
    BY <2>1, <2>2, <2>3 DEF CallInOrder
<1>2. UNCHANGED <<serverVars, authVars, turnVars>>
  BY DEF NonceAnswer, BatchNonceAnswer, FeeAnswer
<1>3. UNCHANGED <<account, authFacts>> /\ OnchainAuthSigningKeySet' = OnchainAuthSigningKeySet
  BY <1>2 DEF serverVars, authVars, OnchainAuthSigningKeySet
<1>4. \A s \in Requests : s # r => params'[s] = params[s]
  BY DEF NonceAnswer, BatchNonceAnswer, FeeAnswer, Inv, TypeOK
<1>5. CASE NonceAnswer(c) \/ FeeAnswer(c)
  <2>1. PICK there \in {"fee", "sign"} : Goto(c, there)
    BY <1>5 DEF NonceAnswer, FeeAnswer, AfterNonce
  <2>2. r \notin Batches
    BY <1>1, <1>5 DEF NonceAnswer, FeeAnswer, Renumbered
  <2>3. params'[r].nonce = account.nonce \/ (r \in KeyChanges /\ account.keySet)
    BY <1>1, <1>5 DEF NonceAnswer, FeeAnswer, Inv, TypeOK, Params
  <2> DEFINE record == [call[c] EXCEPT !.pc = there]
  <2>4. record \in CallStates /\ call' = [call EXCEPT ![c] = record]
    <3>1. there \in Pcs
      BY DEF Pcs
    <3> QED
      BY ONLY <2>1, <3>1, Inv, c \in Calls, GotoRecord DEF Inv
  <2>5. record.pc = there /\ record.request = r
    BY DEF Inv, TypeOK, CallStates
  <2> HIDE DEF record, r
  <2>6. call'[c] = record
    BY <2>4, CallsTyped DEF Inv
  <2>7. CallInOrder(c)'
    BY <1>1, <1>3, <2>2, <2>3, <2>5, <2>6 DEF CallInOrder
  <2>8. Transfers \cup KeyChanges \subseteq Requests
    BY DEF Requests
  <2> QED
    BY <1>1, <1>2, <1>4, <2>4, <2>5, <2>7, <2>8, LiveCallMoves DEF r
<1>6. CASE BatchNonceAnswer(c)
  <2> DEFINE numbered == [request |-> r, nonce |-> FirstNonce(r), fee |-> "quoted"]
             record == [pc |-> "sign", request |-> r, tx |-> numbered]
  <2>1. r \in Batches /\ r \in Renumbered
    BY <1>6 DEF BatchNonceAnswer, Renumbered
  <2>2. FirstNonce(r) = account.nonce
    BY <2>1 DEF Undisturbed, FirstNonce
  <2>3. record \in CallStates
    BY <1>1, <2>2 DEF Inv, TypeOK, CallStates, Pcs, Tx, Fees
  <2>4. call' = [call EXCEPT ![c] = record]
    BY <1>6 DEF BatchNonceAnswer
  <2>5. record.pc = "sign" /\ record.request = r /\ record.tx.nonce = account.nonce
    BY <2>2
  <2> HIDE DEF record, r
  <2>6. call'[c] = record
    BY <2>3, <2>4, CallsTyped DEF Inv
  <2>7. CallInOrder(c)'
    BY <1>1, <1>3, <2>1, <2>5, <2>6 DEF CallInOrder
  <2>8. Transfers \cup KeyChanges \subseteq Requests
    BY DEF Requests
  <2> QED
    BY <1>1, <1>2, <1>4, <2>3, <2>4, <2>5, <2>7, <2>8, LiveCallMoves DEF r
<1> QED
  BY <1>5, <1>6

\* What is signed has the nonce the account has now.
LEMMA SignsInTurn ==
    ASSUME Inv, Orderly, NEW c \in Calls, Sign(c) \/ RemoteSign(c)
    PROVE  Orderly'
<1> DEFINE r == call[c].request
<1>1. c \in Live /\ call[c].pc = "sign" /\ r \in Requests
  BY DEF Sign, RemoteSign, Live, Inv, IInv, StageInv
<1>2. CallInOrder(c)
  BY <1>1 DEF Orderly
<1>3. UNCHANGED <<params, serverVars, authVars, turnVars>>
  BY DEF Sign, RemoteSign
<1>4. UNCHANGED account /\ OnchainAuthSigningKeySet' = OnchainAuthSigningKeySet
  BY <1>3 DEF serverVars, authVars, OnchainAuthSigningKeySet
<1>5. PICK there \in {"key", "submit"}, tx \in Tx :
          /\ call' = [call EXCEPT ![c] = [pc |-> there, request |-> r, tx |-> tx]]
          /\ tx.request = r
          /\ there = "key" => r \in KeyChanges
          /\ tx.nonce = account.nonce \/ (there = "key" /\ account.keySet)
          /\ there = "submit" => r \notin KeyChanges
  <2>1. CASE Sign(c)
    <3> DEFINE signed == [request |-> r, nonce |-> params[r].nonce, fee |-> params[r].fee]
    <3>1. signed \in Tx /\ signed.request = r /\ signed.nonce = params[r].nonce
      BY <1>1, <2>1 DEF Sign, Inv, IInv, StageInv, TypeOK, Params, Tx, None
    <3>2. params[r].nonce = account.nonce \/ (r \in KeyChanges /\ account.keySet)
      BY <1>1, <1>2, <2>1 DEF Sign, CallInOrder
    <3>3. call' = [call EXCEPT ![c] = [pc |-> IF r \in KeyChanges THEN "key" ELSE "submit",
                                       request |-> r, tx |-> signed]]
      BY <2>1 DEF Sign
    <3> HIDE DEF signed
    <3> QED
      BY <3>1, <3>2, <3>3
  <2>2. CASE RemoteSign(c)
    <3> DEFINE signed == [request |-> r, nonce |-> account.nonce, fee |-> "quoted"]
    <3>1. signed \in Tx /\ signed.request = r /\ signed.nonce = account.nonce
      BY <1>1 DEF Inv, TypeOK, Tx, Fees
    <3>2. r \notin KeyChanges
      BY <2>2, SubmissionAssumption DEF RemoteSign, Renumbered
    <3>3. call' = [call EXCEPT ![c] = [pc |-> "submit", request |-> r, tx |-> signed]]
      BY <2>2 DEF RemoteSign
    <3> HIDE DEF signed
    <3> QED
      BY <3>1, <3>2, <3>3
  <2> QED
    BY <2>1, <2>2
<1> DEFINE record == [pc |-> there, request |-> r, tx |-> tx]
<1>6. record \in CallStates /\ call' = [call EXCEPT ![c] = record]
  BY <1>1, <1>5 DEF CallStates, Pcs
<1>7. record.pc = there /\ record.request = r /\ record.tx = tx
  OBVIOUS
<1> HIDE DEF record, r
<1>8. call'[c] = record
  BY <1>6, CallsTyped DEF Inv
<1>9. CallInOrder(c)'
  BY <1>1, <1>2, <1>4, <1>5, <1>7, <1>8 DEF CallInOrder, r
<1> QED
  BY <1>1, <1>3, <1>5, <1>6, <1>7, <1>9, LiveCallMoves DEF r

\* A change of the key passes its check only while the key is not set, and then has the
\* account's nonce; only one that does not pass it may have an older one.
LEMMA GoesOnInTurn ==
    ASSUME Inv, Orderly, NEW c \in Calls, SignBatch(c) \/ CheckKey(c) \/ Resolve(c)
    PROVE  Orderly'
<1> DEFINE r == call[c].request
<1>1. c \in Live /\ call[c].pc \in {"sign", "key", "answer"}
  BY DEF SignBatch, CheckKey, Resolve, Live
<1>2. CallInOrder(c)
  BY <1>1 DEF Orderly
<1>3. UNCHANGED <<params, serverVars, authVars, turnVars>>
  BY DEF SignBatch, CheckKey, Resolve
<1>4. UNCHANGED account /\ OnchainAuthSigningKeySet' = OnchainAuthSigningKeySet
  BY <1>3 DEF serverVars, authVars, OnchainAuthSigningKeySet
<1>5. PICK there \in {"submit", "done", "failed"} :
          /\ Goto(c, there)
          /\ call[c].pc # "answer" \/ there = "done"
          /\ there = "failed" => call[c].pc = "key" /\ account.keySet
          /\ there = "submit" =>
               \/ call[c].pc = "sign" /\ r \in Batches
               \/ call[c].pc = "key" /\ ~account.keySet
  BY DEF SignBatch, CheckKey, Resolve
<1> DEFINE record == [call[c] EXCEPT !.pc = there]
<1>6. record \in CallStates /\ call' = [call EXCEPT ![c] = record]
  <2>1. there \in Pcs
    BY DEF Pcs
  <2> QED
    BY ONLY <1>5, <2>1, Inv, c \in Calls, GotoRecord DEF Inv
<1>7. record.pc = there /\ record.request = r /\ record.tx = call[c].tx
  BY DEF Inv, TypeOK, CallStates
<1> HIDE DEF record, r
<1>8. call'[c] = record
  BY <1>6, CallsTyped DEF Inv
<1>9. there = "submit" => CallInOrder(c)'
  BY <1>1, <1>2, <1>4, <1>5, <1>7, <1>8, SubmissionAssumption DEF CallInOrder, Renumbered, r
<1>10. there = "failed" => r \in KeyChanges
  BY <1>2, <1>5 DEF CallInOrder, r
<1> QED
  BY <1>1, <1>3, <1>5, <1>6, <1>7, <1>9, <1>10, LiveCallMoves DEF r

\* The server receives the one transaction it can execute next.
LEMMA ReceivesInTurn ==
    ASSUME Inv, Orderly, NEW c \in Calls, Receive(c)
    PROVE  Orderly'
<1>1. c \in Live /\ call[c].pc = "submit"
  BY DEF Receive, Live
<1>2. Live = {c} /\ pool = {} /\ auth.pc = "idle" /\ ~authorised
  BY <1>1 DEF Orderly, OneAtATime
<1>3. /\ pool' \subseteq {call[c].tx}
      /\ UNCHANGED <<params, account, executed, rejected, auth, authFacts, authorised>>
  BY <1>2 DEF Receive, authVars, turnVars
<1> DEFINE record == [call[c] EXCEPT !.pc = "answer"]
<1>4. record \in CallStates /\ call' = [call EXCEPT ![c] = record]
  BY GotoRecord DEF Receive, Inv, Pcs
<1>5. record.pc = "answer" /\ record.request = call[c].request
  BY DEF Inv, TypeOK, CallStates
<1> HIDE DEF record
<1>6. call'[c] = record /\ \A d \in Calls \ {c} : call'[d] = call[d]
  BY <1>4, CallsTyped DEF Inv
<1>7. Live' = {c}
  BY <1>2, <1>5, <1>6 DEF Live
<1>8. OneAtATime'
  BY <1>2, <1>3, <1>5, <1>6, <1>7 DEF OneAtATime
<1>9. ObjectsTried'
  BY <1>1, <1>3, <1>5, <1>6 DEF Orderly, ObjectsTried
<1>10. CallInOrder(c)'
  BY <1>5, <1>6 DEF CallInOrder
<1>11. ASSUME NEW tx \in pool' PROVE TxInOrder(tx)'
  <2>1. tx = call[c].tx /\ tx.request = call[c].request
    BY <1>1, <1>3 DEF Inv, IInv, StageInv
  <2>2. CallInOrder(c)
    BY <1>1 DEF Orderly
  <2> QED
    BY <1>1, <1>3, <2>1, <2>2
       DEF CallInOrder, TxInOrder, Unauthorised, OnchainAuthSigningKeySet
<1>12. KeyPaidOnce' /\ rejected' = {}
  BY <1>3 DEF Orderly, KeyPaidOnce
<1> QED
  BY <1>3, <1>7, <1>8, <1>9, <1>10, <1>11, <1>12 DEF Orderly

\* The server has nothing to reject, and executes a change of the key only while the
\* key is not set.
LEMMA ServerInTurn ==
    ASSUME Inv, Orderly, NEW tx \in pool, Execute(tx) \/ Reject(tx)
    PROVE  Orderly'
<1>1. TxInOrder(tx) /\ tx.nonce \in Nat /\ account.nonce \in Nat
  BY DEF Orderly, Inv, TypeOK, Tx
<1>2. ~Reject(tx)
  BY <1>1 DEF Reject, TxInOrder
<1>3. /\ pool = {tx} /\ auth.pc = "idle" /\ ~authorised
      /\ \A c, d \in Live : c = d
      /\ \A c \in Live : call[c].pc = "answer"
  BY DEF Orderly, OneAtATime
<1>4. /\ pool' = pool \ {tx}
      /\ executed' = executed \cup {tx}
      /\ account'.keySet = (account.keySet \/ tx.request \in KeyChanges)
      /\ UNCHANGED <<params, call, rejected, auth, authorised>>
  BY <1>2 DEF Execute, authVars, turnVars
<1>5. pool' = {} /\ Live' = Live
  BY <1>3, <1>4 DEF Live
<1>6. OneAtATime'
  BY <1>3, <1>4, <1>5 DEF OneAtATime
<1>7. ObjectsTried'
  BY <1>4 DEF Orderly, ObjectsTried
<1>8. KeyPaidOnce'
  BY <1>1, <1>4 DEF Orderly, KeyPaidOnce, TxInOrder
<1>9. \A c \in Live' : CallInOrder(c)'
  BY <1>3, <1>4, <1>5 DEF CallInOrder
<1> QED
  BY <1>4, <1>5, <1>6, <1>7, <1>8, <1>9 DEF Orderly

\* An authorisation is for the nonce that the change of the key is going to have.
LEMMA AuthoriseInTurn ==
    ASSUME Inv, Orderly, Undisturbed', Authorise, ~AuthFails
    PROVE  Orderly'
<1>1. UNCHANGED <<params, call, serverVars>>
  BY DEF Authorise, AuthCall, AuthKeyAnswer, AuthNonceAnswer, AuthMined
<1>2. UNCHANGED <<params, call, account, pool, executed, rejected, Live>>
  BY <1>1 DEF serverVars, Live
<1>3. Live = {} /\ pool = {}
  <2>1. CASE AuthCall
    BY <2>1 DEF AuthCall, Undisturbed, AllSeen, Live
  <2>2. CASE auth.pc # "idle"
    BY <2>2 DEF Orderly, OneAtATime
  <2> QED
    BY <2>1, <2>2 DEF Authorise, AuthKeyAnswer, AuthNonceAnswer, AuthMined
<1>4. /\ auth'.pc = "mining" => auth'.nonce = account'.nonce
      /\ authorised' => OnchainAuthSigningKeySet'
  <2>1. CASE AuthCall
    BY <2>1 DEF AuthCall
  <2>2. CASE AuthKeyAnswer
    BY <1>2, <2>2 DEF AuthKeyAnswer, turnVars, Orderly, OneAtATime, OnchainAuthSigningKeySet,
                      Inv, TypeOK, AuthTypeOK, AuthCalls
  <2>3. CASE AuthNonceAnswer
    BY <1>2, <2>3 DEF AuthNonceAnswer, turnVars, Orderly, OneAtATime,
                      OnchainAuthSigningKeySet
  <2>4. CASE AuthMined
    BY <1>2, <2>4 DEF AuthMined, Orderly, OneAtATime, OnchainAuthSigningKeySet
  <2> QED
    BY <2>1, <2>2, <2>3, <2>4 DEF Authorise
<1>5. OneAtATime'
  BY <1>2, <1>3, <1>4 DEF OneAtATime
<1> QED
  BY <1>2, <1>3, <1>5 DEF Orderly, ObjectsTried, KeyPaidOnce

\* Every step keeps to the turn of the operations.
LEMMA TurnStep ==
    ASSUME Inv, TurnInv, [Next]_vars
    PROVE  TurnInv'
<1> SUFFICES ASSUME Undisturbed' PROVE Orderly'
  BY DEF TurnInv
<1>1. /\ Undisturbed /\ Orderly
      /\ ~AuthFails /\ ~ExecuteForeign
      /\ \A c \in Calls : ~Fail(c)
  BY UndisturbedBefore DEF TurnInv
<1>2. CASE \E c \in Calls, r \in Requests : Call(c, r)
  BY <1>1, <1>2, CallInTurn
<1>3. CASE \E c \in Calls : NonceAnswer(c) \/ BatchNonceAnswer(c) \/ FeeAnswer(c)
  BY <1>1, <1>3, AnswersInTurn
<1>4. CASE \E c \in Calls : Sign(c) \/ RemoteSign(c)
  BY <1>1, <1>4, SignsInTurn
<1>5. CASE \E c \in Calls : SignBatch(c) \/ CheckKey(c) \/ Resolve(c)
  BY <1>1, <1>5, GoesOnInTurn
<1>6. CASE \E c \in Calls : Receive(c)
  BY <1>1, <1>6, ReceivesInTurn
<1>7. CASE \E tx \in pool : Execute(tx) \/ Reject(tx)
  BY <1>1, <1>7, ServerInTurn
<1>8. CASE Authorise
  BY <1>1, <1>8, AuthoriseInTurn
<1>9. CASE UNCHANGED vars
  BY <1>1, <1>9
     DEF vars, serverVars, authVars, turnVars, Orderly, OneAtATime, ObjectsTried, KeyPaidOnce,
         Live, CallInOrder, TxInOrder, Unauthorised, OnchainAuthSigningKeySet
<1> QED
  BY <1>1, <1>2, <1>3, <1>4, <1>5, <1>6, <1>7, <1>8, <1>9 DEF Next

\* While nothing disturbs a program that waits, the nonce an attempt holds is the one
\* the account has, and what it has authorised on Rootstock is authorised for that one.
THEOREM TurnsAreTaken == Spec => []TurnInv
<1>1. Init => TurnInv
  <2> SUFFICES ASSUME Init, Undisturbed PROVE Orderly
    BY DEF TurnInv
  <2>1. Live = {} /\ pool = {} /\ executed = {} /\ rejected = {}
    BY DEF Init, Live
  <2>2. auth.pc = "idle" /\ ~authorised
    BY DEF Init
  <2>3. \A r \in Transfers \cup KeyChanges : params[r].nonce = None
    BY SubmissionAssumption DEF Init, Requests, Renumbered
  <2>4. \A c \in Calls : call[c].pc = "idle"
    BY DEF Init
  <2> QED
    BY <2>1, <2>2, <2>3, <2>4 DEF Orderly, OneAtATime, ObjectsTried, KeyPaidOnce
<1> QED
  BY <1>1, TurnStep, InductiveInvariant, PTL DEF Spec

\* The server never rejects a transaction of a program that waits, whatever mix of
\* transfers, batches, remote operations and changes of the key it is.
THEOREM WaitingIsNeverRejected == Spec => []NeverRejected
<1>1. TurnInv => NeverRejected
  BY DEF TurnInv, Orderly, NeverRejected
<1> QED
  BY <1>1, TurnsAreTaken, PTL

\* A program that waits has its key changed once, however many objects it passes to
\* setSigningKey and whether they are authorised by a signature or on Rootstock.
THEOREM WaitingChangesKeyOnce == Spec => []KeyChangedOnce
<1>1. TurnInv => KeyChangedOnce
  BY DEF TurnInv, Orderly, KeyPaidOnce, KeyChangedOnce
<1> QED
  BY <1>1, TurnsAreTaken, PTL
=============================================================================
