------------------------ MODULE BatchBuilder_proofs -------------------------
(***************************************************************************)
(* Proofs about BatchBuilder, for builders of any length and any sequence  *)
(* of builds that follow one another.                                      *)
(***************************************************************************)
EXTENDS BatchBuilder, SumLemmas, SequenceTheorems, TLAPS

\* The documentation wants build awaited: no two builds are in flight together.
OneAtATime == \A a, b \in Builds : a = b

\* A build that has not begun has a state like any other.
LEMMA Idle == NotBuilding \in BuildStates /\ NotBuilding.pc = "idle"
BY EmptySeq DEF NotBuilding, BuildStates, Pcs

\* What the server asks for is an amount.
LEMMA QuoteType == \A n \in Nat : Quote(n) \in Nat
BY DEF Quote

\* The nonce of the first transaction is a number.
LEMMA FirstNonceType == TypeOK => FirstNonce \in Nat
BY BuilderAssumption DEF TypeOK, FirstNonce

\* What the last of a list that is not empty is.
LEMMA LastOf ==
    ASSUME NEW seq \in Seq(Tx), seq # <<>>
    PROVE  Len(seq) \in Nat \ {0} /\ Last(seq) = seq[Len(seq)] /\ Last(seq) \in Tx
BY EmptySeq, LenProperties, ElementOfSeq DEF Last

\* A list of transactions made one by one.
LEMMA Listed ==
    ASSUME NEW n \in Nat, NEW list, list = [i \in 1 .. n |-> list[i]],
           \A i \in 1 .. n : list[i] \in Tx
    PROVE  list \in Seq(Tx) /\ Len(list) = n /\ DOMAIN list = 1 .. n
<1>1. list \in [1 .. n -> Tx]
  OBVIOUS
<1>2. list \in Seq(Tx)
  BY <1>1, SeqDef
<1> QED
  BY <1>1, <1>2, LenProperties

\* A transaction is added at the end.
LEMMA Appended ==
    ASSUME NEW seq \in Seq(Tx), NEW tx \in Tx
    PROVE  /\ Append(seq, tx) \in Seq(Tx)
           /\ Len(Append(seq, tx)) = Len(seq) + 1
           /\ Append(seq, tx) # <<>>
           /\ Append(seq, tx)[Len(seq) + 1] = tx
           /\ \A i \in 1 .. Len(seq) : Append(seq, tx)[i] = seq[i]
BY AppendProperties, LenProperties

\* The totals depend only on the tokens and the fees.
LEMMA SameFeesSameTotals ==
    ASSUME NEW s \in Seq(Tx), NEW t \in Seq(Tx), Len(s) = Len(t),
           \A i \in 1 .. Len(s) : s[i].token = t[i].token /\ s[i].fee = t[i].fee
    PROVE  Totals(s) = Totals(t)
<1>1. DOMAIN s = 1 .. Len(s) /\ DOMAIN t = 1 .. Len(s)
  BY LenProperties
<1>2. [i \in DOMAIN s |-> s[i].fee] = [i \in DOMAIN t |-> t[i].fee]
  BY <1>1
<1>3. \A token : {i \in DOMAIN s : s[i].token = token} = {i \in DOMAIN t : t[i].token = token}
  BY <1>1
<1>4. \A token : FeesIn(s, token) = FeesIn(t, token)
  BY <1>2, <1>3 DEF FeesIn
<1> QED
  BY <1>4 DEF Totals

\* The fees of any number of transactions sum to a natural number.
LEMMA TotalsType ==
    ASSUME NEW seq \in Seq(Tx)
    PROVE  Totals(seq) \in [Tokens -> Nat]
<1>1. DOMAIN seq = 1 .. Len(seq) /\ Len(seq) \in Nat /\ \A i \in 1 .. Len(seq) : seq[i] \in Tx
  BY LenProperties, ElementOfSeq
<1>2. ASSUME NEW token \in Tokens
      PROVE  FeesIn(seq, token) \in Nat
  <2> DEFINE paid == {i \in DOMAIN seq : seq[i].token = token}
             fees == [i \in DOMAIN seq |-> seq[i].fee]
  <2>1. \A i \in paid : fees[i] \in Nat
    BY <1>1 DEF Tx
  <2>2. IsFiniteSet(1 .. Len(seq)) /\ paid \subseteq 1 .. Len(seq)
    BY <1>1, FS_Interval
  <2> HIDE DEF paid, fees
  <2>3. SumFunctionOnSet(fees, paid) \in Nat
    BY <2>1, <2>2, FS_Subset, SumType
  <2> QED
    BY <2>3 DEF FeesIn, paid, fees
<1> QED
  BY <1>2 DEF Totals

\* One transaction is replaced.
LEMMA Replaced ==
    ASSUME NEW seq \in Seq(Tx), NEW i \in 1 .. Len(seq), NEW tx \in Tx,
           NEW new, new = [seq EXCEPT ![i] = tx]
    PROVE  /\ new \in Seq(Tx) /\ Len(new) = Len(seq) /\ new[i] = tx
           /\ \A j \in 1 .. Len(seq) : j # i => new[j] = seq[j]
BY ExceptSeq, LenProperties

-----------------------------------------------------------------------------
(***************************************************************************)
(* The types, however many builds of the builder are in flight together.   *)
(***************************************************************************)

\* A build moves on, and the builder does not shrink.
LEMMA TypesMove ==
    ASSUME TypeInv, NEW b \in Builds, NEW new \in BuildStates,
           build' = [build EXCEPT ![b] = new], UNCHANGED <<wallet, committed>>,
           txs' \in Seq(Tx), Len(txs') >= Len(txs), Fits(new, Len(txs'))
    PROVE  TypeInv'
<1>1. Len(txs) \in Nat /\ Len(txs') \in Nat
  BY LenProperties DEF TypeInv, TypeOK
<1>2. \A state : Fits(state, Len(txs)) => Fits(state, Len(txs'))
  BY <1>1 DEF Fits
<1>3. \A c \in Builds : build'[c] = IF c = b THEN new ELSE build[c]
  BY DEF TypeInv, TypeOK
<1>4. \A c \in Builds : Fits(build'[c], Len(txs'))
  BY <1>2, <1>3 DEF TypeInv
<1> QED
  BY <1>4 DEF TypeInv, TypeOK

\* The program adds a transaction.
LEMMA TypesAdd ==
    ASSUME TypeInv, NEW token \in Tokens, NEW fee \in {0, 1},
           Add(token, fee) \/ \E n \in 0 .. MaxNonce : AddSigned(token, fee, n)
    PROVE  TypeInv'
<1>1. Transfer(token, fee) \in Tx
  BY DEF Transfer, Tx, Nonces
<1>2. \A n \in 0 .. MaxNonce :
        [token |-> token, fee |-> fee, nonce |-> n, signedFor |-> n] \in Tx
  BY BuilderAssumption DEF Tx, Nonces
<1>3. PICK tx \in Tx : txs' = Append(txs, tx)
  BY <1>1, <1>2 DEF Add, AddSigned
<1>4. UNCHANGED <<wallet, build, committed>>
  BY DEF Add, AddSigned
<1>5. txs' \in Seq(Tx) /\ Len(txs) \in Nat /\ Len(txs') = Len(txs) + 1
  BY <1>3, Appended, LenProperties DEF TypeInv, TypeOK
<1>6. \A b \in Builds : Fits(build[b], Len(txs'))
  BY <1>5 DEF TypeInv, Fits
<1> QED
  BY <1>4, <1>5, <1>6 DEF TypeInv, TypeOK

\* build, without a fee token and with one.
LEMMA TypesBuild ==
    ASSUME TypeInv, NEW b \in Builds, Build(b) \/ \E t \in Tokens : BuildWith(b, t)
    PROVE  TypeInv'
<1>1. txs \in Seq(Tx) /\ Len(txs) \in Nat \ {0}
  BY LastOf DEF TypeInv, TypeOK, Build, BuildWith
<1>2. CASE Build(b)
  <2> DEFINE new == [NotBuilding EXCEPT !.pc = "nonce", !.total = Totals(txs)]
  <2>1. new \in BuildStates /\ new.pc = "nonce" /\ new.built = <<>>
    BY <1>1, Idle, TotalsType DEF NotBuilding, BuildStates, Pcs
  <2>2. build' = [build EXCEPT ![b] = new] /\ UNCHANGED <<wallet, txs, committed>>
    BY <1>2 DEF Build
  <2> HIDE DEF new
  <2>3. Fits(new, Len(txs')) /\ Len(txs') >= Len(txs)
    BY <1>1, <2>1, <2>2 DEF Fits
  <2> QED
    BY <1>1, <2>1, <2>2, <2>3, TypesMove
<1>3. ASSUME NEW t \in Tokens, BuildWith(b, t)
      PROVE  TypeInv'
  <2> DEFINE new == [NotBuilding EXCEPT !.pc = "fee", !.feeToken = t, !.asked = Len(txs')]
  <2>1. Transfer(t, 0) \in Tx
    BY DEF Transfer, Tx, Nonces
  <2>2. txs' = txs \/ txs' = Append(txs, Transfer(t, 0))
    BY <1>3 DEF BuildWith
  <2>3. txs' \in Seq(Tx) /\ Len(txs') \in Nat \ {0} /\ Len(txs') >= Len(txs)
    BY <1>1, <2>1, <2>2, Appended
  <2>4. /\ new \in BuildStates /\ new.pc = "fee" /\ new.built = <<>>
        /\ new.asked = Len(txs')
    BY <2>3, Idle DEF NotBuilding, BuildStates, Pcs
  <2>5. build' = [build EXCEPT ![b] = new] /\ UNCHANGED <<wallet, committed>>
    BY <1>3 DEF BuildWith
  <2> HIDE DEF new
  <2>6. Fits(new, Len(txs'))
    BY <2>3, <2>4 DEF Fits
  <2> QED
    BY <2>3, <2>4, <2>5, <2>6, TypesMove
<1> QED
  BY <1>2, <1>3

\* A transaction of the builder is changed in one field.
LEMMA TypesChange ==
    ASSUME TypeInv, NEW i \in 1 .. Len(txs), NEW n \in Nat,
           \/ txs' = [txs EXCEPT ![i].fee = n]
           \/ txs' = [txs EXCEPT ![i].nonce = n]
    PROVE  txs' \in Seq(Tx) /\ Len(txs') = Len(txs)
<1>1. txs \in Seq(Tx) /\ txs[i] \in Tx
  BY ElementOfSeq DEF TypeInv, TypeOK
<1>2. [txs[i] EXCEPT !.fee = n] \in Tx /\ [txs[i] EXCEPT !.nonce = n] \in Tx
  BY <1>1 DEF Tx, Nonces
<1>3. PICK tx \in Tx : txs' = [txs EXCEPT ![i] = tx]
  BY <1>2
<1> QED
  BY <1>1, <1>3, Replaced

\* The answers about the fee and the nonce.
LEMMA TypesAnswer ==
    ASSUME TypeInv, NEW b \in Builds, FeeAnswer(b) \/ NonceAnswer(b)
    PROVE  TypeInv'
<1>1. /\ txs \in Seq(Tx) /\ Len(txs) \in Nat \ {0} /\ build[b] \in BuildStates
      /\ FirstNonce \in Nat /\ build[b].built = <<>>
  <2>1. txs \in Seq(Tx) /\ build[b] \in BuildStates /\ FirstNonce \in Nat
    BY FirstNonceType DEF TypeInv, TypeOK
  <2>2. Len(txs) \in Nat
    BY <2>1, LenProperties
  <2> QED
    BY <2>1, <2>2 DEF TypeInv, Fits, FeeAnswer, NonceAnswer
<1>2. CASE FeeAnswer(b)
  <2> DEFINE new == [build[b] EXCEPT !.pc = "nonce", !.total = Totals(txs')]
  <2>1. build[b].asked \in 1 .. Len(txs) /\ Quote(build[b].asked) \in Nat
    BY <1>1, <1>2, QuoteType DEF TypeInv, Fits, FeeAnswer
  <2>2. txs' \in Seq(Tx) /\ Len(txs') = Len(txs)
    BY <1>2, <2>1, TypesChange DEF FeeAnswer
  <2>3. Totals(txs') \in [Tokens -> Nat]
    BY <2>2, TotalsType
  <2>4. new \in BuildStates /\ new.pc = "nonce" /\ new.built = <<>>
    BY <1>1, <2>3 DEF BuildStates, Pcs
  <2>5. build' = [build EXCEPT ![b] = new] /\ UNCHANGED <<wallet, committed>>
    BY <1>2 DEF FeeAnswer
  <2> HIDE DEF new
  <2>6. Fits(new, Len(txs')) /\ Len(txs') >= Len(txs)
    BY <1>1, <2>2, <2>4 DEF Fits
  <2> QED
    BY <1>1, <2>2, <2>4, <2>5, <2>6, TypesMove
<1>3. CASE NonceAnswer(b)
  <2> DEFINE new == [build[b] EXCEPT !.pc = "sign", !.first = FirstNonce]
  <2>1. txs' = [txs EXCEPT ![1].nonce = FirstNonce] /\ 1 \in 1 .. Len(txs)
    BY <1>1, <1>3 DEF NonceAnswer, Number
  <2>2. txs' \in Seq(Tx) /\ Len(txs') = Len(txs)
    BY <1>1, <2>1, TypesChange
  <2>3. new \in BuildStates /\ new.pc = "sign" /\ new.built = <<>>
    BY <1>1 DEF BuildStates, Pcs
  <2>4. build' = [build EXCEPT ![b] = new] /\ UNCHANGED <<wallet, committed>>
    BY <1>3 DEF NonceAnswer
  <2> HIDE DEF new
  <2>5. Len(new.built) = 0
    BY <2>3, EmptySeq
  <2>6. Fits(new, Len(txs')) /\ Len(txs') >= Len(txs)
    BY <1>1, <2>2, <2>3, <2>5 DEF Fits
  <2> QED
    BY <1>1, <2>2, <2>3, <2>4, <2>6, TypesMove
<1> QED
  BY <1>2, <1>3

\* A RemoteWallet has copies made of all transactions.
LEMMA TypesRemote ==
    ASSUME TypeInv, NEW b \in Builds, RemoteNonceAnswer(b)
    PROVE  TypeInv'
<1> DEFINE copies == [i \in DOMAIN txs |-> [txs'[i] EXCEPT !.signedFor = None]]
           new == [build[b] EXCEPT !.pc = "message", !.first = FirstNonce, !.built = copies]
<1>1. /\ Len(txs) \in Nat /\ DOMAIN txs = 1 .. Len(txs) /\ FirstNonce \in Nat
      /\ build[b] \in BuildStates /\ \A i \in 1 .. Len(txs) : txs[i] \in Tx
  BY LenProperties, ElementOfSeq, FirstNonceType DEF TypeInv, TypeOK
<1>2. Len(txs) > 0
  BY DEF TypeInv, Fits, RemoteNonceAnswer
<1>3. txs' = [i \in 1 .. Len(txs) |-> txs'[i]] /\ \A i \in 1 .. Len(txs) : txs'[i] \in Tx
  BY <1>1 DEF RemoteNonceAnswer, Tx, Nonces
<1>4. txs' \in Seq(Tx) /\ Len(txs') = Len(txs)
  BY <1>1, <1>3, Listed
<1>5. copies = [i \in 1 .. Len(txs) |-> copies[i]] /\ \A i \in 1 .. Len(txs) : copies[i] \in Tx
  BY <1>1, <1>3 DEF Tx, Nonces
<1> HIDE DEF copies
<1>6. copies \in Seq(Tx)
  BY <1>1, <1>5, Listed
<1>7. new \in BuildStates /\ new.pc = "message"
  BY <1>1, <1>6 DEF BuildStates, Pcs
<1>8. build' = [build EXCEPT ![b] = new] /\ UNCHANGED <<wallet, committed>>
  BY DEF RemoteNonceAnswer, copies
<1> HIDE DEF new
<1>9. Fits(new, Len(txs')) /\ Len(txs') >= Len(txs)
  BY <1>1, <1>2, <1>4, <1>7 DEF Fits
<1> QED
  BY <1>1, <1>4, <1>7, <1>8, <1>9, TypesMove

\* A Wallet signs one and numbers the next.
LEMMA TypesSign ==
    ASSUME TypeInv, NEW b \in Builds, SignNext(b)
    PROVE  TypeInv'
<1> DEFINE built == build[b].built
           k == Len(built) + 1
           signed == Append(built, txs[k])
           pc == IF k < Len(txs) THEN "sign" ELSE "message"
           new == [build[b] EXCEPT !.built = signed, !.pc = pc]
<1>1. /\ txs \in Seq(Tx) /\ build[b] \in BuildStates /\ build[b].pc = "sign"
      /\ built \in Seq(Tx) /\ build[b].first \in Nat /\ Len(built) < Len(txs)
  BY DEF TypeInv, TypeOK, Fits, SignNext, BuildStates
<1>2. /\ Len(txs) \in Nat \ {0} /\ Len(built) \in Nat /\ k \in 1 .. Len(txs)
      /\ build[b].first + k \in Nat
  BY <1>1, LenProperties
<1>3. signed \in Seq(Tx) /\ Len(signed) = k
  BY <1>1, <1>2, ElementOfSeq, Appended
<1>4. /\ k < Len(txs) => txs' = [txs EXCEPT ![k + 1].nonce = build[b].first + k]
      /\ ~(k < Len(txs)) => txs' = txs
  BY DEF SignNext, Number
<1>5. build' = [build EXCEPT ![b] = new] /\ UNCHANGED <<wallet, committed>>
  BY DEF SignNext
<1> HIDE DEF signed, k, built
<1>6. txs' \in Seq(Tx) /\ Len(txs') = Len(txs)
  <2>1. CASE k < Len(txs)
    <3>1. k + 1 \in 1 .. Len(txs)
      BY <1>2, <2>1
    <3> QED
      BY <1>2, <1>4, <2>1, <3>1, TypesChange
  <2> QED
    BY <1>1, <1>4, <2>1
<1>7. /\ new \in BuildStates /\ new.built = signed
      /\ new.pc = IF k < Len(txs) THEN "sign" ELSE "message"
  BY <1>1, <1>3 DEF BuildStates, Pcs
<1> HIDE DEF new
<1>8. Fits(new, Len(txs')) /\ Len(txs') >= Len(txs)
  BY <1>2, <1>3, <1>6, <1>7 DEF Fits
<1> QED
  BY <1>2, <1>5, <1>6, <1>7, <1>8, TypesMove

\* The variables have their types: the totals of any number of transactions are natural
\* numbers, and no build refers to a transaction that is not there.  Overlapping builds
\* of one builder do not change that.
THEOREM TypeCorrect == Spec => []TypeOK
<1>1. Init => TypeInv
  BY EmptySeq, Idle DEF Init, TypeInv, TypeOK, Fits
<1>2. TypeInv /\ [Next]_vars => TypeInv'
  <2> SUFFICES ASSUME TypeInv, [Next]_vars PROVE TypeInv'
    OBVIOUS
  <2>1. ASSUME NEW b \in Builds, Settle(b) PROVE TypeInv'
    <3>1. Fits(NotBuilding, Len(txs'))
      BY Idle DEF Fits
    <3>2. txs' \in Seq(Tx) /\ Len(txs') >= Len(txs)
      BY <2>1, LenProperties DEF Settle, TypeInv, TypeOK
    <3> QED
      BY <2>1, <3>1, <3>2, Idle, TypesMove DEF Settle
  <2>2. CASE Execute \/ UNCHANGED vars
    <3>1. UNCHANGED <<wallet, txs, build>> /\ committed' \in Nat
      BY <2>2 DEF Execute, vars, TypeInv, TypeOK
    <3> QED
      BY <3>1 DEF TypeInv, TypeOK
  <2> QED
    BY <2>1, <2>2, TypesAdd, TypesBuild, TypesAnswer, TypesRemote, TypesSign DEF Next
<1> QED
  BY <1>1, <1>2, PTL DEF Spec, TypeInv
-----------------------------------------------------------------------------
\* A build moves on.
LEMMA Moved ==
    ASSUME TypeOK, NEW b \in Builds, NEW new \in BuildStates,
           build' = [build EXCEPT ![b] = new]
    PROVE  build' \in [Builds -> BuildStates] /\ build'[b] = new
BY DEF TypeOK

(***************************************************************************)
(* One lemma for each kind of step.                                        *)
(***************************************************************************)
Inv == TypeOK /\ BuildInv

\* No build has begun.
LEMMA Initially == Init => Inv
<1> SUFFICES ASSUME Init PROVE Inv
  OBVIOUS
<1>1. TypeOK
  BY EmptySeq, Idle DEF TypeOK, Init
<1>2. BuildInv
  BY Idle DEF Init, BuildInv
<1> QED
  BY <1>1, <1>2 DEF Inv

\* The program adds a transaction while no build is in flight.
LEMMA AddKeeps ==
    ASSUME Inv, NEW token \in Tokens, NEW fee \in {0, 1},
           Add(token, fee) \/ \E n \in 0 .. MaxNonce : AddSigned(token, fee, n)
    PROVE  Inv'
<1>1. UNCHANGED <<wallet, build, committed>> /\ \A b \in Builds : build[b].pc = "idle"
  BY DEF Add, AddSigned, Quiet
<1>2. Transfer(token, fee) \in Tx
  BY DEF Transfer, Tx, Nonces
<1>3. \E tx \in Tx : txs' = Append(txs, tx)
  <2>1. CASE Add(token, fee)
    BY <1>2, <2>1 DEF Add
  <2>2. ASSUME NEW n \in 0 .. MaxNonce, AddSigned(token, fee, n)
        PROVE  \E tx \in Tx : txs' = Append(txs, tx)
    <3>1. n \in Nonces
      BY BuilderAssumption DEF Nonces
    <3>2. [token |-> token, fee |-> fee, nonce |-> n, signedFor |-> n] \in Tx
      BY <3>1 DEF Tx
    <3> QED
      BY <2>2, <3>2 DEF AddSigned
  <2> QED
    BY <2>1, <2>2
<1>4. TypeOK'
  BY <1>1, <1>3, Appended DEF TypeOK, Inv
<1>5. BuildInv'
  BY <1>1 DEF BuildInv
<1> QED
  BY <1>4, <1>5 DEF Inv

\* build without a fee token totals what is there.
LEMMA BuildKeeps ==
    ASSUME Inv, OneAtATime, NEW b \in Builds, Build(b)
    PROVE  Inv'
<1> DEFINE new == [NotBuilding EXCEPT !.pc = "nonce", !.total = Totals(txs)]
<1>1. UNCHANGED <<wallet, txs, committed>> /\ build' = [build EXCEPT ![b] = new]
  BY DEF Build
<1>2. new \in BuildStates /\ new.pc = "nonce" /\ new.feeToken = NoToken
      /\ new.total = Totals(txs) /\ new.built = <<>>
  BY Idle, TotalsType DEF TypeOK, NotBuilding, BuildStates, Pcs, Inv
<1> HIDE DEF new
<1>3. TypeOK'
  BY <1>1, <1>2 DEF TypeOK, Inv
<1>4. build'[b] = new /\ txs # <<>>
  BY <1>1 DEF TypeOK, Inv, Build
<1>5. Totals(txs)' = Totals(txs)
  BY <1>1 DEF Totals
<1>6. BuildInv'
  BY <1>1, <1>2, <1>4, <1>5 DEF BuildInv, Charged, OneAtATime
<1> QED
  BY <1>3, <1>6 DEF Inv

\* With a fee token the last transaction is in it, and all are free.
LEMMA BuildWithKeeps ==
    ASSUME Inv, OneAtATime, NEW b \in Builds, NEW feeToken \in Tokens,
           BuildWith(b, feeToken)
    PROVE  Inv'
<1> DEFINE new == [NotBuilding EXCEPT !.pc = "fee", !.feeToken = feeToken,
                                      !.asked = Len(txs')]
<1>1. UNCHANGED <<wallet, committed>> /\ build' = [build EXCEPT ![b] = new]
  BY DEF BuildWith
<1>2. txs \in Seq(Tx) /\ txs # <<>> /\ \A i \in 1 .. Len(txs) : txs[i].fee = 0
  BY LenProperties DEF TypeOK, Inv, BuildWith
<1>3. Transfer(feeToken, 0) \in Tx /\ Transfer(feeToken, 0).token = feeToken
      /\ Transfer(feeToken, 0).fee = 0
  BY DEF Transfer, Tx, Nonces
<1>4. /\ txs' \in Seq(Tx) /\ txs' # <<>> /\ Last(txs').token = feeToken
      /\ \A i \in 1 .. Len(txs') : txs'[i].fee = 0
  <2>1. CASE txs' = txs /\ Last(txs).token = feeToken
    BY <1>2, <2>1
  <2>2. CASE txs' = Append(txs, Transfer(feeToken, 0))
    <3>1. Len(txs) \in Nat /\ Len(txs') = Len(txs) + 1
      BY <1>2, <1>3, <2>2, Appended, LastOf
    <3>2. Last(txs') = Transfer(feeToken, 0)
      BY <1>2, <1>3, <2>2, <3>1, Appended DEF Last
    <3> QED
      BY <1>2, <1>3, <2>2, <3>1, <3>2, Appended
  <2> QED
    BY <2>1, <2>2 DEF BuildWith
<1>5. /\ new \in BuildStates /\ new.pc = "fee" /\ new.feeToken = feeToken
      /\ new.asked = Len(txs') /\ new.built = <<>>
  BY <1>4, Idle, LenProperties DEF NotBuilding, BuildStates, Pcs
<1> HIDE DEF new
<1>6. TypeOK'
  BY <1>1, <1>4, <1>5 DEF TypeOK, Inv
<1>7. build'[b] = new
  BY <1>1 DEF TypeOK, Inv
<1>8. DOMAIN txs' = 1 .. Len(txs')
  BY <1>4, LenProperties
<1>9. BuildInv'
  BY <1>4, <1>5, <1>7, <1>8 DEF BuildInv, OneAtATime, Last
<1> QED
  BY <1>6, <1>9 DEF Inv

\* The fee of the batch goes into its last transaction, and is totalled.
LEMMA FeeAnswerKeeps ==
    ASSUME Inv, OneAtATime, NEW b \in Builds, FeeAnswer(b)
    PROVE  Inv'
<1> DEFINE last == build[b].asked
           new == [build[b] EXCEPT !.pc = "nonce", !.total = Totals(txs')]
<1>1. /\ UNCHANGED <<wallet, committed>>
      /\ txs' = [txs EXCEPT ![last].fee = Quote(last)]
      /\ build' = [build EXCEPT ![b] = new]
  BY DEF FeeAnswer
<1>2. /\ txs \in Seq(Tx) /\ txs # <<>> /\ last = Len(txs)
      /\ Last(txs).token = build[b].feeToken /\ \A i \in 1 .. Len(txs) : txs[i].fee = 0
  BY LenProperties DEF TypeOK, Inv, BuildInv, FeeAnswer
<1>3. last \in 1 .. Len(txs) /\ Last(txs) = txs[last] /\ txs[last] \in Tx
  BY <1>2, LastOf
<1> HIDE DEF last
<1>4. Quote(last) \in Nat
  BY <1>3, QuoteType
<1>5. /\ txs' \in Seq(Tx) /\ Len(txs') = Len(txs)
      /\ txs'[last] = [txs[last] EXCEPT !.fee = Quote(last)]
      /\ \A j \in 1 .. Len(txs) : j # last => txs'[j] = txs[j]
  <2> DEFINE tx == [txs[last] EXCEPT !.fee = Quote(last)]
  <2>1. tx \in Tx
    BY <1>3, <1>4 DEF Tx
  <2>2. txs' = [txs EXCEPT ![last] = tx]
    BY <1>1 DEF last
  <2> HIDE DEF tx
  <2>3. txs'[last] = tx
    BY <1>2, <1>3, <2>1, <2>2, Replaced
  <2> QED
    BY <1>2, <1>3, <2>1, <2>2, <2>3, Replaced DEF tx
<1>6. /\ txs' # <<>> /\ Last(txs') = txs'[last]
      /\ txs'[last].token = build[b].feeToken /\ txs'[last].fee = Quote(last)
  BY <1>2, <1>3, <1>5, EmptySeq, LenProperties DEF Last, Tx
<1>7. /\ new \in BuildStates /\ new.pc = "nonce" /\ new.feeToken = build[b].feeToken
      /\ new.total = Totals(txs') /\ new.built = <<>>
  <2>1. build[b] \in BuildStates /\ build[b].built = <<>>
    BY DEF TypeOK, Inv, BuildInv, FeeAnswer
  <2>2. Totals(txs') \in [Tokens -> Nat]
    BY <1>5, TotalsType
  <2> QED
    BY <2>1, <2>2 DEF BuildStates, Pcs
<1> HIDE DEF new
<1>8. Totals(txs)' = Totals(txs')
  BY DEF Totals
<1>9. TypeOK' /\ build'[b] = new
  BY <1>1, <1>5, <1>7, Moved DEF TypeOK, Inv
<1>10. Charged(b)'
  BY <1>2, <1>5, <1>6, <1>7, <1>8, <1>9 DEF Charged
<1>11. BuildInv'
  BY <1>6, <1>7, <1>9, <1>10 DEF BuildInv, OneAtATime
<1> QED
  BY <1>9, <1>11 DEF Inv

\* Numbering changes neither fees nor tokens.
LEMMA NumberedCharged ==
    ASSUME Inv, NEW b \in Builds, Charged(b), txs # <<>>, txs' \in Seq(Tx),
           Len(txs') = Len(txs), build'[b].total = build[b].total,
           build'[b].feeToken = build[b].feeToken,
           \A i \in 1 .. Len(txs) : txs'[i].token = txs[i].token /\ txs'[i].fee = txs[i].fee
    PROVE  Charged(b)' /\ txs' # <<>>
<1>1. txs \in Seq(Tx) /\ Len(txs) \in Nat \ {0} /\ Last(txs) = txs[Len(txs)]
  BY LastOf DEF TypeOK, Inv
<1>2. txs' # <<>> /\ Last(txs') = txs'[Len(txs)]
  BY <1>1, EmptySeq DEF Last
<1>3. Totals(txs)' = Totals(txs)
  BY <1>1, SameFeesSameTotals DEF Totals
<1> QED
  BY <1>1, <1>2, <1>3 DEF Charged

\* The answer about the nonce: a Wallet numbers the first transaction.
LEMMA NonceAnswerKeeps ==
    ASSUME Inv, OneAtATime, NEW b \in Builds, NonceAnswer(b)
    PROVE  Inv'
<1> DEFINE new == [build[b] EXCEPT !.pc = "sign", !.first = FirstNonce]
<1>1. /\ UNCHANGED <<wallet, committed>> /\ wallet = "Wallet"
      /\ txs' = [txs EXCEPT ![1].nonce = FirstNonce]
      /\ build' = [build EXCEPT ![b] = new]
  BY DEF NonceAnswer, Number
<1>2. txs \in Seq(Tx) /\ txs # <<>> /\ Charged(b)
  BY DEF TypeOK, Inv, BuildInv, NonceAnswer
<1>3. /\ Len(txs) \in Nat \ {0} /\ 1 \in 1 .. Len(txs) /\ txs[1] \in Tx
      /\ FirstNonce \in Nat /\ FirstNonce \in Nonces
  BY <1>2, LastOf, ElementOfSeq, FirstNonceType DEF Inv, Nonces
<1>4. /\ txs' \in Seq(Tx) /\ Len(txs') = Len(txs)
      /\ txs'[1] = [txs[1] EXCEPT !.nonce = FirstNonce]
      /\ \A j \in 1 .. Len(txs) : j # 1 => txs'[j] = txs[j]
  <2> DEFINE tx == [txs[1] EXCEPT !.nonce = FirstNonce]
  <2>1. tx \in Tx
    BY <1>3 DEF Tx
  <2>2. txs' = [txs EXCEPT ![1] = tx]
    BY <1>1
  <2> HIDE DEF tx
  <2>3. txs'[1] = tx
    BY <1>2, <1>3, <2>1, <2>2, Replaced
  <2> QED
    BY <1>2, <1>3, <2>1, <2>2, <2>3, Replaced DEF tx
<1>5. /\ txs'[1].nonce = FirstNonce
      /\ \A i \in 1 .. Len(txs) : txs'[i].token = txs[i].token /\ txs'[i].fee = txs[i].fee
  BY <1>3, <1>4 DEF Tx
<1>6. /\ new \in BuildStates /\ new.pc = "sign" /\ new.first = FirstNonce
      /\ new.feeToken = build[b].feeToken /\ new.total = build[b].total /\ new.built = <<>>
  <2>1. build[b] \in BuildStates /\ build[b].built = <<>>
    BY DEF TypeOK, Inv, BuildInv, NonceAnswer
  <2> QED
    BY <1>3, <2>1 DEF BuildStates, Pcs
<1> HIDE DEF new
<1>7. TypeOK' /\ build'[b] = new
  BY <1>1, <1>4, <1>6, Moved DEF TypeOK, Inv
<1>8. Charged(b)' /\ txs' # <<>>
  BY <1>2, <1>4, <1>5, <1>6, <1>7, NumberedCharged
<1>9. ProcessedInv(b)'
  BY <1>1, <1>3, <1>4, <1>5, <1>6, <1>7, EmptySeq, LenProperties, SMTT(30) DEF ProcessedInv
<1>10. BuildInv'
  BY <1>6, <1>7, <1>8, <1>9 DEF BuildInv, OneAtATime
<1> QED
  BY <1>7, <1>10 DEF Inv

\* A RemoteWallet numbers all of them, and has copies signed.
LEMMA RemoteNonceAnswerKeeps ==
    ASSUME Inv, OneAtATime, NEW b \in Builds, RemoteNonceAnswer(b)
    PROVE  Inv'
<1> DEFINE numbered == [i \in DOMAIN txs |-> [txs[i] EXCEPT !.nonce = FirstNonce + i - 1]]
           copies == [i \in DOMAIN txs |-> [txs'[i] EXCEPT !.signedFor = None]]
           new == [build[b] EXCEPT !.pc = "message", !.first = FirstNonce, !.built = copies]
<1>1. /\ UNCHANGED <<wallet, committed>> /\ wallet = "RemoteWallet" /\ txs' = numbered
      /\ build' = [build EXCEPT ![b] = new]
  BY DEF RemoteNonceAnswer
<1>2. txs \in Seq(Tx) /\ txs # <<>> /\ Charged(b)
  BY DEF TypeOK, Inv, BuildInv, RemoteNonceAnswer
<1>3. /\ Len(txs) \in Nat /\ DOMAIN txs = 1 .. Len(txs) /\ FirstNonce \in Nat
      /\ \A i \in 1 .. Len(txs) : txs[i] \in Tx
  BY <1>2, LenProperties, ElementOfSeq, FirstNonceType DEF Inv
<1>4. \A i \in 1 .. Len(txs) :
        /\ numbered[i] \in Tx /\ numbered[i].nonce = FirstNonce + i - 1
        /\ numbered[i].token = txs[i].token /\ numbered[i].fee = txs[i].fee
  BY <1>3 DEF Tx, Nonces
<1>5. numbered \in Seq(Tx) /\ Len(numbered) = Len(txs)
  BY <1>3, <1>4, LenProperties
<1>6. \A i \in 1 .. Len(txs) :
        copies[i] \in Tx /\ copies[i] = [numbered[i] EXCEPT !.signedFor = None]
  BY <1>1, <1>3, <1>4 DEF Tx, Nonces
<1>7. copies \in Seq(Tx) /\ Len(copies) = Len(txs) /\ DOMAIN copies = 1 .. Len(txs)
  <2>1. copies = [i \in 1 .. Len(txs) |-> copies[i]]
    BY <1>3
  <2>2. \A i \in 1 .. Len(txs) : copies[i] \in Tx
    BY <1>6
  <2> HIDE DEF copies
  <2> QED
    BY <1>3, <2>1, <2>2, Listed
<1> HIDE DEF numbered, copies
<1>8. /\ new \in BuildStates /\ new.pc = "message" /\ new.first = FirstNonce
      /\ new.feeToken = build[b].feeToken /\ new.total = build[b].total
      /\ new.built = copies
  <2>1. build[b] \in BuildStates
    BY DEF TypeOK, Inv
  <2> QED
    BY <1>3, <1>7, <2>1 DEF BuildStates, Pcs
<1> HIDE DEF new
<1>9. TypeOK' /\ build'[b] = new
  BY <1>1, <1>5, <1>8, Moved DEF TypeOK, Inv
<1>10. Charged(b)' /\ txs' # <<>>
  BY <1>1, <1>2, <1>4, <1>5, <1>8, <1>9, NumberedCharged
<1>11. ProcessedInv(b)'
  <2>1. \A i \in 1 .. Len(txs) : /\ copies[i] = [txs'[i] EXCEPT !.signedFor = None]
                               /\ txs'[i].nonce = FirstNonce + i - 1
    BY <1>1, <1>4, <1>6
  <2>2. /\ wallet' # "Wallet" /\ Len(txs') = Len(txs)
        /\ build'[b].built = copies /\ build'[b].first = FirstNonce
        /\ build'[b].pc = "message"
    BY <1>1, <1>5, <1>8, <1>9
  <2> QED
    BY <1>3, <1>7, <2>1, <2>2 DEF ProcessedInv, Processed
<1>12. BuildInv'
  BY <1>8, <1>9, <1>10, <1>11 DEF BuildInv, OneAtATime
<1> QED
  BY <1>9, <1>12 DEF Inv

\* A Wallet's loop: one transaction is signed as it stands, and the next numbered.
LEMMA SignNextKeeps ==
    ASSUME Inv, OneAtATime, NEW b \in Builds, SignNext(b)
    PROVE  Inv'
<1> DEFINE built == build[b].built
           k == Len(built) + 1
           nonce == build[b].first + k
           pc == IF k < Len(txs) THEN "sign" ELSE "message"
           new == [build[b] EXCEPT !.built = Append(built, txs[k]), !.pc = pc]
<1>1. /\ UNCHANGED <<wallet, committed>>
      /\ build' = [build EXCEPT ![b] = new]
      /\ IF k < Len(txs) THEN txs' = [txs EXCEPT ![k + 1].nonce = nonce]
                         ELSE UNCHANGED txs
  BY DEF SignNext, Number
<1>2. /\ txs \in Seq(Tx) /\ txs # <<>> /\ Charged(b) /\ ProcessedInv(b)
      /\ build[b].pc = "sign" /\ built \in Seq(Tx) /\ build[b].first \in Nat
  BY DEF TypeOK, Inv, BuildInv, SignNext, BuildStates
<1>3. /\ wallet = "Wallet" /\ Len(built) < Len(txs)
      /\ \A i \in 1 .. Len(built) : built[i] = txs[i] /\ txs[i].nonce = build[b].first + i - 1
      /\ txs[k].nonce = build[b].first + k - 1
  <2>1. Len(built) \in Nat /\ DOMAIN built = 1 .. Len(built)
    BY <1>2, LenProperties
  <2>2. k - 1 = Len(built)
    BY <2>1
  <2> QED
    BY <1>2, <2>1, <2>2 DEF ProcessedInv, Processed
<1>4. /\ Len(built) \in Nat /\ Len(txs) \in Nat /\ k \in 1 .. Len(txs)
      /\ nonce \in Nat /\ nonce \in Nonces
      /\ \A i \in 1 .. Len(txs) : txs[i] \in Tx
  BY <1>2, <1>3, LenProperties, ElementOfSeq, SMTT(30) DEF Nonces
<1>5. /\ txs' \in Seq(Tx) /\ Len(txs') = Len(txs)
      /\ \A i \in 1 .. Len(txs) : txs'[i].token = txs[i].token /\ txs'[i].fee = txs[i].fee
      /\ \A i \in 1 .. k : txs'[i] = txs[i]
      /\ k < Len(txs) => txs'[k + 1].nonce = nonce
  <2>1. CASE k < Len(txs)
    <3>1. k + 1 \in 1 .. Len(txs)
      BY <1>4, <2>1
    <3>2. txs' = [txs EXCEPT ![k + 1].nonce = nonce]
      BY <1>1, <2>1
    <3> DEFINE tx == [txs[k + 1] EXCEPT !.nonce = nonce]
    <3>3. tx \in Tx
      BY <1>4, <3>1 DEF Tx
    <3>4. txs' = [txs EXCEPT ![k + 1] = tx]
      BY <3>2
    <3> HIDE DEF k, nonce, tx
    <3>5. txs'[k + 1] = tx
      BY <1>2, <3>1, <3>3, <3>4, Replaced
    <3>6. /\ txs' \in Seq(Tx) /\ Len(txs') = Len(txs)
          /\ txs'[k + 1] = [txs[k + 1] EXCEPT !.nonce = nonce]
          /\ \A j \in 1 .. Len(txs) : j # k + 1 => txs'[j] = txs[j]
      BY <1>2, <3>1, <3>3, <3>4, <3>5, Replaced DEF tx
    <3>7. txs'[k + 1].nonce = nonce /\ txs'[k + 1].token = txs[k + 1].token
          /\ txs'[k + 1].fee = txs[k + 1].fee
      BY <1>4, <3>1, <3>6 DEF Tx
    <3>8. k + 1 \notin 1 .. k /\ \A i \in 1 .. k : i \in 1 .. Len(txs)
      BY <1>4 DEF k
    <3> QED
      BY <1>4, <3>1, <3>6, <3>7, <3>8
  <2>2. CASE ~(k < Len(txs))
    BY <1>1, <1>2, <1>4, <2>2
  <2> QED
    BY <2>1, <2>2
<1>6. /\ Append(built, txs[k]) \in Seq(Tx) /\ Len(Append(built, txs[k])) = k
      /\ Append(built, txs[k])[k] = txs[k]
      /\ \A i \in 1 .. Len(built) : Append(built, txs[k])[i] = built[i]
  BY <1>2, <1>4, Appended
<1>7. /\ new \in BuildStates /\ new.pc = pc /\ new.first = build[b].first
      /\ new.feeToken = build[b].feeToken /\ new.total = build[b].total
      /\ new.built = Append(built, txs[k])
  <2>1. build[b] \in BuildStates /\ pc \in Pcs
    BY DEF TypeOK, Inv, Pcs
  <2> HIDE DEF built, k, pc
  <2> QED
    BY <1>6, <2>1 DEF BuildStates
<1> HIDE DEF new
<1>8. TypeOK' /\ build'[b] = new
  BY <1>1, <1>5, <1>7, Moved DEF TypeOK, Inv
<1>9. Charged(b)' /\ txs' # <<>>
  BY <1>2, <1>5, <1>7, <1>8, NumberedCharged
<1>10. \A i \in 1 .. k : /\ build'[b].built[i] = txs'[i]
                         /\ txs'[i].nonce = build[b].first + i - 1
  <2>1. \A i \in 1 .. k : i \in 1 .. Len(built) \/ i = k
    BY <1>4
  <2> HIDE DEF built, k
  <2> QED
    BY <1>3, <1>5, <1>6, <1>7, <1>8, <2>1
<1>11. DOMAIN build'[b].built = 1 .. k /\ Len(build'[b].built) = k
  BY <1>6, <1>7, <1>8, LenProperties
<1>12. ProcessedInv(b)'
  <2>1. k < Len(txs) => txs'[k + 1].nonce = build[b].first + k
    BY <1>5
  <2>2. /\ wallet' = "Wallet" /\ Len(txs') = Len(txs)
        /\ build'[b].first = build[b].first /\ build'[b].pc = pc
    BY <1>1, <1>3, <1>5, <1>7, <1>8
  <2> HIDE DEF built, k, nonce
  <2> QED
    BY <1>4, <1>10, <1>11, <2>1, <2>2 DEF ProcessedInv, Processed, pc
<1>13. BuildInv'
  BY <1>7, <1>8, <1>9, <1>12 DEF BuildInv, OneAtATime
<1> QED
  BY <1>8, <1>13 DEF Inv

\* A build that settles leaves the transactions behind as they are.
LEMMA SettleKeeps ==
    ASSUME Inv, OneAtATime, NEW b \in Builds, Settle(b)
    PROVE  Inv'
<1>1. build' = [build EXCEPT ![b] = NotBuilding] /\ UNCHANGED <<wallet, txs, committed>>
  BY DEF Settle
<1>2. TypeOK'
  BY <1>1, Idle DEF TypeOK, Inv
<1>3. build'[b].pc = "idle"
  BY <1>1, Idle DEF TypeOK, Inv
<1>4. BuildInv'
  BY <1>3 DEF BuildInv, OneAtATime
<1> QED
  BY <1>2, <1>4 DEF Inv

\* The account moves on, and the builder is none the wiser.
LEMMA ExecuteKeeps ==
    ASSUME Inv, Execute \/ UNCHANGED vars
    PROVE  Inv'
<1>1. UNCHANGED <<wallet, txs, build>> /\ committed' \in Nat
  BY DEF TypeOK, Execute, vars, Inv
<1>2. TypeOK'
  BY <1>1 DEF TypeOK, Inv
<1>3. BuildInv'
  BY <1>1 DEF Inv, BuildInv, Charged, ProcessedInv, Processed, Totals
<1> QED
  BY <1>2, <1>3 DEF Inv

\* In every reachable state the transactions of the builder are charged and numbered as
\* far as the build in flight has come.
THEOREM InductiveInvariant ==
    ASSUME OneAtATime
    PROVE  Spec => []Inv
<1>1. Inv /\ [Next]_vars => Inv'
  BY OneAtATime, AddKeeps, BuildKeeps, BuildWithKeeps, FeeAnswerKeeps, NonceAnswerKeeps,
     RemoteNonceAnswerKeeps, SignNextKeeps, SettleKeeps, ExecuteKeeps
     DEF Next
<1> QED
  BY <1>1, Initially, PTL DEF Spec

-----------------------------------------------------------------------------
(***************************************************************************)
(* What the user is asked to sign.                                         *)
(***************************************************************************)

\* The batch is the list of the builder, but for signatures that a RemoteWallet's
\* external signer makes anew.
LEMMA BatchIsList ==
    ASSUME Inv, NEW b \in Asking
    PROVE  /\ txs \in Seq(Tx) /\ Batch(b) \in Seq(Tx) /\ Len(Batch(b)) = Len(txs)
           /\ txs # <<>> /\ Charged(b)
           /\ \A i \in 1 .. Len(txs) :
                /\ Batch(b)[i].token = txs[i].token /\ Batch(b)[i].fee = txs[i].fee
                /\ Batch(b)[i].nonce = build[b].first + i - 1
<1>1. /\ b \in Builds /\ txs \in Seq(Tx) /\ txs # <<>> /\ Charged(b) /\ ProcessedInv(b)
      /\ build[b].built \in Seq(Tx) /\ build[b].pc = "message"
  BY DEF TypeOK, Asking, Inv, BuildInv, BuildStates
<1>2. /\ DOMAIN build[b].built = 1 .. Len(txs) /\ Len(txs) \in Nat
      /\ \A i \in 1 .. Len(txs) :
            /\ txs[i] \in Tx /\ build[b].built[i] \in Tx
            /\ build[b].built[i] = Processed(txs[i])
            /\ txs[i].nonce = build[b].first + i - 1
  BY <1>1, LenProperties, ElementOfSeq DEF ProcessedInv
<1>3. DOMAIN Batch(b) = 1 .. Len(txs)
  BY <1>2 DEF Batch
<1>4. \A i \in 1 .. Len(txs) :
        /\ Batch(b)[i] \in Tx
        /\ Batch(b)[i].token = txs[i].token /\ Batch(b)[i].fee = txs[i].fee
        /\ Batch(b)[i].nonce = txs[i].nonce
  BY <1>2 DEF Batch, Processed, Tx
<1>5. Batch(b) \in Seq(Tx) /\ Len(Batch(b)) = Len(txs)
  <2>1. Batch(b) = [i \in 1 .. Len(txs) |-> Batch(b)[i]]
    BY <1>2 DEF Batch
  <2> QED
    BY <1>2, <1>4, <2>1, LenProperties
<1> QED
  BY <1>1, <1>2, <1>4, <1>5

\* The batch holds every transaction of the builder, numbered from the nonce in the
\* message, however many there are and whatever earlier builds have left.
THEOREM BatchIsNumbered ==
    ASSUME OneAtATime
    PROVE  Spec => []Numbered
<1>1. Inv => Numbered
  BY BatchIsList, LenProperties DEF Numbered
<1> QED
  BY <1>1, InductiveInvariant, OneAtATime, PTL

\* The total that build returns is what the batch pays, token by token.
THEOREM TotalIsWhatIsPaid ==
    ASSUME OneAtATime
    PROVE  Spec => []FeesAccounted
<1>1. ASSUME Inv, NEW b \in Asking PROVE build[b].total = Totals(Batch(b))
  BY <1>1, BatchIsList, SameFeesSameTotals DEF Charged
<1>2. Inv => FeesAccounted
  BY <1>1 DEF FeesAccounted
<1> QED
  BY <1>2, InductiveInvariant, OneAtATime, PTL

\* A build with a fee token has the last transaction pay, in that token, what the server
\* asks for a batch of that size, and the others nothing.
THEOREM LastPaysTheQuote ==
    ASSUME OneAtATime
    PROVE  Spec => []LastPaysForAll
<1>1. ASSUME Inv, NEW b \in Asking, build[b].feeToken # NoToken
      PROVE  /\ Last(Batch(b)).token = build[b].feeToken
             /\ Last(Batch(b)).fee = Quote(Len(Batch(b)))
             /\ \A i \in 1 .. Len(Batch(b)) - 1 : Batch(b)[i].fee = 0
  BY <1>1, BatchIsList, LastOf, SMTT(30) DEF Charged, Last
<1>2. Inv => LastPaysForAll
  BY <1>1 DEF LastPaysForAll
<1> QED
  BY <1>2, InductiveInvariant, OneAtATime, PTL
=============================================================================
