------------------------- MODULE ConstructionProofs -------------------------
(***************************************************************************)
(* What the Construction API promises its clients, for every set of        *)
(* requests, keys and foreign transactions and whatever the order of calls *)
(* and the growth of the chain.                                            *)
(*                                                                         *)
(* The server remembers nothing, so that the argument is about what it     *)
(* hands out.  A transaction to sign carries the code of the transfer its  *)
(* own operations speak of, and the accounts asked to sign it are those    *)
(* that code and the pool look for; a request at hand looked at hashes     *)
(* that are still known when it is answered, and has found every block     *)
(* above the height it is at empty, or knows that it missed one.           *)
(*                                                                         *)
(* What is handed out, or submitted by others, is then followed through    *)
(* the node and the indexer (MempoolTellsBlock) and back through the       *)
(* parser and validateOps (ParsedIsAsked).                                 *)
(***************************************************************************)
EXTENDS Construction, TransferProofs

\* A transaction handed out is the transfer asked for.
Written(u) ==
  LET asked == TransferOf(u.ops) IN
  /\ u.txn.code = InvokeCode(asked)
  /\ asked.amount \in Nat
  /\ u.signers = {asked.from, u.txn.payer}

AllWritten == \A u \in unsigned : Written(u)

SignedOwn == \A s \in signed : \A sig \in s.sigs : sig.over = Hash(s.txn)

\* The shape of options and of a request at hand.
Options(o) ==
  o = [ amount |-> o.amount, contract |-> o.contract, from |-> o.from, to |-> o.to,
        gasLimit |-> o.gasLimit, gasPrice |-> o.gasPrice, nonce |-> o.nonce,
        payer |-> o.payer ]

Good(o) ==
  /\ Options(o)
  /\ o.contract \in Tokens /\ o.from # nullAddr /\ o.amount \in Nat \ {0}
  /\ o.gasLimit \in Nat /\ (o.gasLimit = 0 \/ o.gasLimit >= minGasLimit)
  /\ o.nonce \in 0..MaxNonce

Request(c) ==
  /\ c = [ pc |-> c.pc, opts |-> c.opts, height |-> c.height, start |-> c.start,
           end |-> c.end, tries |-> c.tries, seen |-> c.seen, asked |-> c.asked,
           missed |-> c.missed ]
  /\ c.pc \in {"price", "random", "given"}
  /\ Good(c.opts)
  /\ c.height \in 0..MaxUint32 /\ c.start \in Nat /\ c.end \in 0..c.start
  /\ c.tries \in 0..(Attempts - 1)
  /\ c.missed \in BOOLEAN

ChainOK ==
  /\ \E S : chain \in Seq(S)
  /\ indexed \in 0..Len(chain)
  /\ Len(chain) >= 1 /\ Len(chain) - 1 <= MaxUint32
  /\ chain[1] = Genesis

CallOK ==
  /\ \A o \in options : Good(o)
  /\ call.pc = "idle" => call = Idle(call.answer) /\ (call.answer = nil \/ Good(call.answer))
  /\ call.pc # "idle" => /\ Request(call)
                        /\ call.start <= CurrentHeight /\ call.seen \subseteq Known

\* The scan of getGasPrice.
Scanning ==
  call.pc = "price" =>
    /\ call.opts.gasPrice = call.asked
    /\ ~call.missed => /\ call.height <= call.start
                      /\ \A h \in call.end..call.start :
                           h > call.height => chain[h + 1] = <<>>

\* What it has settled on.
PriceFrom(average) ==
  IF average > call.asked THEN average
  ELSE IF call.asked < defaultGasPrice THEN defaultGasPrice ELSE call.asked

Settled ==
  call.pc \in {"random", "given"} /\ ~call.missed =>
    \/ NonEmpty = {} /\ call.opts.gasPrice = PriceFrom(0)
    \/ /\ call.height \in NonEmpty /\ \A h \in NonEmpty : h <= call.height
       /\ call.opts.gasPrice = PriceFrom(AveragePrice(chain[call.height + 1]))

ConstructionInv == ChainOK /\ CallOK /\ Scanning /\ Settled

----------------------------------------------------------------------------
(* What validateOps lets through.                                          *)

\* Operations validateOps lets through say a positive amount of a known token.
LEMMA ValidAmount ==
  ASSUME NEW r \in Requests, validateOps(r.ops)
  PROVE  /\ TransferOf(r.ops).amount \in Nat \ {0}
         /\ TransferOf(r.ops).contract \in Tokens
         /\ TransferOf(r.ops).from # nullAddr
<1> DEFINE a == r.ops[1]
           b == r.ops[2]
<1>1. /\ Len(r.ops) = 2 /\ ValidOp(a) /\ ValidOp(b) /\ a.value + b.value = 0
      /\ TransferOf(r.ops).from # nullAddr
  BY DEF validateOps
<1>2. a.value \in Int /\ b.value \in Int /\ a.value # 0 /\ b.value # 0
  <2>1. 1 \in 1..Len(r.ops) /\ 2 \in 1..Len(r.ops) BY <1>1
  <2> QED BY <1>1, <2>1, RequestAssumption DEF ValidOp
<1>3. a.currency.contract \in Tokens /\ b.currency.contract \in Tokens
  BY <1>1 DEF ValidOp, validateCurrency
<1>4. CASE a.value < 0 BY <1>1, <1>2, <1>3, <1>4 DEF TransferOf
<1>5. CASE ~(a.value < 0) BY <1>1, <1>2, <1>3, <1>5 DEF TransferOf
<1> QED BY <1>4, <1>5

\* The code does not depend on what of the options Fits does not compare.
LEMMA SameCode ==
  ASSUME NEW o, NEW xfer, Fits(o, xfer)
  PROVE  /\ constructTransfer(o).code = InvokeCode(xfer)
         /\ constructTransfer(o).payer = o.payer
BY DEF Fits, constructTransfer, InvokeCode

----------------------------------------------------------------------------
(* Only /payloads and /combine hand out transactions.                      *)

\* Every step hands out only transactions written from the operations given.
LEMMA StepWritten == AllWritten /\ [Next]_vars => AllWritten'
<1> SUFFICES ASSUME AllWritten, [Next]_vars PROVE AllWritten' OBVIOUS
<1>1. ASSUME NEW o \in Held, NEW r \in Requests, ConstructionPayloads(o, r.ops)
      PROVE  AllWritten'
  <2> DEFINE xfer == TransferOf(r.ops)
             u == [txn |-> constructTransfer(o), ops |-> r.ops,
                   signers |-> Signers(constructTransfer(o), xfer)]
  <2>1. unsigned' = unsigned \union {u} /\ validateOps(r.ops) /\ Fits(o, xfer)
    BY <1>1 DEF ConstructionPayloads
  <2>2. Written(u)
    BY <2>1, ValidAmount, SameCode DEF Written, Signers
  <2> QED BY <2>1, <2>2 DEF AllWritten
<1>2. CASE unsigned' = unsigned BY <1>2 DEF AllWritten
<1>3. unsigned' = unsigned \/ \E o \in Held, r \in Requests : ConstructionPayloads(o, r.ops)
  BY DEF Next, vars, client, node, Metadata, ConstructionPreprocess, MetadataBegins,
     HeaderSkipped, HeaderFails, PriceFound, BlockFails, WindowEnds, TryNonce, GivenNonce,
     MetadataFails, Refuse, Answer, ConstructionCombine, ConstructionSubmit, ForeignSubmit,
     AppendTxToPool, NewBlock, IndexNext
<1> QED BY <1>1, <1>2, <1>3

\* Every step hands out only signatures over the transaction they come with.
LEMMA StepSigned == SignedOwn /\ [Next]_vars => SignedOwn'
<1> SUFFICES ASSUME SignedOwn, [Next]_vars PROVE SignedOwn' OBVIOUS
<1>1. ASSUME NEW u, NEW sigs, ConstructionCombine(u, sigs) PROVE SignedOwn'
  <2> DEFINE s == [txn |-> u.txn,
                   sigs |-> {[key |-> sig.key, over |-> sig.over] : sig \in sigs}]
  <2>1. /\ signed' = signed \union {s}
        /\ \A sig \in sigs : Verified(sig, Hash(u.txn))
    BY <1>1 DEF ConstructionCombine
  <2>2. \A sig \in s.sigs : sig.over = Hash(s.txn)
    BY <2>1 DEF Verified
  <2> QED BY <2>1, <2>2 DEF SignedOwn
<1>2. CASE signed' = signed BY <1>2 DEF SignedOwn
<1>3. signed' = signed \/ \E u, sigs : ConstructionCombine(u, sigs)
  BY DEF Next, vars, client, node, Metadata, ConstructionPreprocess, MetadataBegins,
     HeaderSkipped, HeaderFails, PriceFound, BlockFails, WindowEnds, TryNonce, GivenNonce,
     MetadataFails, Refuse, Answer, ConstructionPayloads, ConstructionSubmit, ForeignSubmit,
     AppendTxToPool, NewBlock, IndexNext
<1> QED BY <1>1, <1>2, <1>3

----------------------------------------------------------------------------
(* What the code of a transfer does, and whose signature it needs.         *)

\* The code payload.go writes for a transfer holds that one transfer, in the
\* token's own units, and nothing after it, and asks for the sender's witness
\* alone.
LEMMA Wrote ==
  ASSUME NEW xfer, xfer.amount \in Nat
  PROVE  LET code == InvokeCode(xfer)
             args == Arguments(code)
         IN  /\ args = << <<xfer.from, xfer.to, xfer.amount>> >>
             /\ Witnesses(code) = {xfer.from} /\ code.rest = Nothing
             /\ ~InGWei(code) /\ code.contract = xfer.contract
             /\ code.op = IF isNative(xfer.contract) THEN "SYSCALL"
                          ELSE IF xfer.contract \in Wasm THEN "WASM" ELSE "APPCALL"
<1> DEFINE t == <<xfer.from, xfer.to, xfer.amount>>
           code == InvokeCode(xfer)
<1>1. CASE isNative(xfer.contract)
  <2>1. code = [op |-> "SYSCALL", contract |-> xfer.contract, method |-> "transferV2",
                params |-> <<t>>, rest |-> Nothing]
    BY <1>1 DEF InvokeCode, Code
  <2>2. Arguments(code) = <<t>> /\ ~From(code) /\ ~InGWei(code)
    BY <2>1 DEF Arguments, From, InGWei
  <2>3. Witnesses(code) = {xfer.from} BY <2>1, <2>2 DEF Witnesses, Nothing
  <2> QED BY <1>1, <2>1, <2>2, <2>3
<1>2. CASE ~isNative(xfer.contract)
  <2>1. code = [op |-> IF xfer.contract \in Wasm THEN "WASM" ELSE "APPCALL",
                contract |-> xfer.contract, method |-> "transfer", params |-> t,
                rest |-> Nothing]
    BY <1>2 DEF InvokeCode, Code
  <2>2. Arguments(code) = <<t>> /\ ~From(code) /\ ~InGWei(code)
    BY <2>1 DEF Arguments, From, InGWei
  <2>3. Witnesses(code) = {xfer.from} BY <2>1, <2>2 DEF Witnesses, Nothing
  <2> QED BY <1>2, <2>1, <2>2, <2>3
<1> QED BY <1>1, <1>2

\* A sequence of one, with another element appended.
LEMMA AppendToOne ==
  ASSUME NEW a, NEW b
  PROVE  Len(Append(<<a>>, b)) = 2 /\ Append(<<a>>, b)[1] = a
<1> DEFINE S == {a, b}
<1>1. <<a>> \in Seq(S) /\ Len(<<a>>) = 1 /\ <<a>>[1] = a /\ b \in S OBVIOUS
<1> QED BY <1>1, AppendProperties

\* Quotient and remainder make the number again.
LEMMA Division ==
  ASSUME NEW n \in Nat, NEW g \in Nat \ {0}
  PROVE  (n \div g) * g + (n % g) = n
OBVIOUS

\* What a written transaction does when executed is, as the indexer decodes its
\* events, the transfer its operations ask for.
LEMMA ExecutedWritten ==
  ASSUME NEW u, Written(u)
  PROVE  LET asked == TransferOf(u.ops)
             notify == Executed(u.txn, FALSE, Gas).notify
             moved == Decode(notify[1], Gas)
         IN  /\ Len(notify) = 2
             /\ notify[1].contract = asked.contract
             /\ moved.ok /\ moved.from = asked.from /\ moved.to = asked.to
             /\ moved.amount = asked.amount
<1> DEFINE asked == TransferOf(u.ops)
           t == <<asked.from, asked.to, asked.amount>>
           code == u.txn.code
           e == EventOf(code, t)
           fee == Event("native4", ONG, <<u.txn.payer, govAddr>>, Gas, 0)
           notify == Executed(u.txn, FALSE, Gas).notify
<1>1. code = InvokeCode(asked) /\ asked.amount \in Nat BY DEF Written
<1>2. /\ Arguments(code) = <<t>> /\ ~InGWei(code) /\ code.contract = asked.contract
      /\ code.op = "SYSCALL" <=> isNative(asked.contract)
      /\ code.rest.notify = <<>>
  BY <1>1, Wrote DEF Nothing
<1>3. notify = Append(<<e>>, fee)
  <2>1. notify = Append([i \in DOMAIN Arguments(code) |-> EventOf(code, Arguments(code)[i])]
                          \o code.rest.notify, fee)
    BY DEF Executed
  <2>2. [i \in DOMAIN Arguments(code) |-> EventOf(code, Arguments(code)[i])] = <<e>>
    BY <1>2
  <2>3. <<e>> \o <<>> = <<e>>
    <3> HIDE DEF e
    <3>1. <<e>> \in Seq({e}) OBVIOUS
    <3> QED BY <3>1, ConcatEmptySeq
  <2> QED BY <1>2, <2>1, <2>2, <2>3
<1>4. /\ e.contract = asked.contract /\ e.name = "transfer"
      /\ e.from = asked.from /\ e.to = asked.to
      /\ IF isNative(asked.contract)
         THEN e.form = "native5" /\ e.amount = asked.amount \div GWei
              /\ e.value = asked.amount % GWei
         ELSE e.form = "oep4" /\ e.amount = asked.amount
  BY <1>2 DEF EventOf, Event
<1>5. LET moved == Decode(e, Gas)
      IN  moved.ok /\ moved.from = asked.from /\ moved.to = asked.to
          /\ moved.amount = asked.amount
  <2>1. CASE isNative(asked.contract)
    <3>1. Decode(e, Gas) = DecodeNative(e, Gas)
      BY <1>4, <2>1 DEF Decode, isNative
    <3>2. e.amount * GWei + e.value = asked.amount
      <4>1. GWei \in Nat \ {0} BY TransfersAssumption
      <4>2. (asked.amount \div GWei) * GWei + (asked.amount % GWei) = asked.amount
        BY <1>1, <4>1, Division
      <4> QED BY <1>4, <2>1, <4>2
    <3> QED BY <1>4, <2>1, <3>1, <3>2 DEF DecodeNative, Transfer
  <2>2. CASE ~isNative(asked.contract)
    <3>1. Decode(e, Gas) = DecodeOEP4(e) BY <1>4, <2>2 DEF Decode, isNative
    <3>2. ~(e.amount < 0) BY <1>1, <1>4, <2>2
    <3> QED BY <1>4, <2>2, <3>1, <3>2 DEF DecodeOEP4, Transfer
  <2> QED BY <2>1, <2>2
<1> HIDE DEF e, fee, notify
<1>6. Len(notify) = 2 /\ notify[1] = e BY <1>3, AppendToOne
<1> QED BY <1>4, <1>5, <1>6 DEF notify

\* At first nothing has been handed out.
LEMMA InitHandedOut == Init => AllWritten /\ SignedOwn
BY DEF Init, AllWritten, SignedOwn

\* What a client is given to sign moves, once executed and indexed, exactly the
\* amount it asked for between the accounts it asked for, whatever metadata it
\* sent along (construction_service.go 346-400 and 477-544).
THEOREM SignsWhatIsAsked == Spec => []SignedIsAsked
<1>1. AllWritten => SignedIsAsked
  BY ExecutedWritten DEF AllWritten, SignedIsAsked
<1> QED BY <1>1, InitHandedOut, StepWritten, PTL DEF Spec

\* A transaction signed by those /payloads asked has every signature that is
\* looked for, and none made for another (construction_service.go 69-127 and
\* 374-395).
THEOREM FittingSignatures == Spec => []SignaturesFit
<1>1. AllWritten /\ SignedOwn => SignaturesFit
  <2> SUFFICES ASSUME AllWritten, SignedOwn, NEW s \in signed, NEW u \in unsigned,
                      s.txn = u.txn, u.signers \subseteq SignedBy(s)
               PROVE  /\ s.txn.payer \in SignedBy(s)
                      /\ Witnesses(s.txn.code) \subseteq SignedBy(s)
    BY DEF SignaturesFit, SignedOwn
  <2>1. Written(u) BY DEF AllWritten
  <2>2. Witnesses(u.txn.code) = {TransferOf(u.ops).from} BY <2>1, Wrote DEF Written
  <2> QED BY <2>1, <2>2 DEF Written
<1> QED BY <1>1, InitHandedOut, StepWritten, StepSigned, PTL DEF Spec

----------------------------------------------------------------------------
(* Requests of /construction/metadata.                                     *)

\* At first there is no request, and nothing to be wrong of it.
LEMMA InitConstructionInv == Init => ConstructionInv
<1> SUFFICES ASSUME Init PROVE ConstructionInv OBVIOUS
<1>1. ChainOK
  <2>1. chain \in Seq({Genesis}) /\ Len(chain) = 1 /\ chain[1] = Genesis BY DEF Init
  <2>2. \E S : chain \in Seq(S) BY <2>1
  <2>3. indexed = 1 /\ 1 - 1 <= MaxUint32 BY ConstructionAssumption DEF Init
  <2> QED BY <2>1, <2>2, <2>3 DEF ChainOK
<1>2. call.pc = "idle" /\ call.answer = nil BY DEF Init, Idle
<1> QED BY <1>1, <1>2 DEF Init, ConstructionInv, CallOK, Scanning, Settled

\* The current height is that of a block, the genesis at least.
LEMMA HeightIsNat == ChainOK => CurrentHeight \in Nat
<1> SUFFICES ASSUME ChainOK PROVE CurrentHeight \in Nat OBVIOUS
<1>1. PICK S : chain \in Seq(S) BY DEF ChainOK
<1> QED BY <1>1, LenProperties DEF ChainOK, CurrentHeight

\* The chain and what is indexed of it only grow.
LEMMA Grows ==
  ASSUME ChainOK, (\E t : NewBlock(t)) \/ IndexNext \/ UNCHANGED <<chain, indexed>>
  PROVE  /\ ChainOK' /\ Known \subseteq Known'
         /\ CurrentHeight <= CurrentHeight' /\ CurrentHeight \in Nat
         /\ \A h \in 0..CurrentHeight : chain'[h + 1] = chain[h + 1]
<1>1. PICK S : chain \in Seq(S) BY DEF ChainOK
<1>2. /\ Len(chain) \in Nat /\ indexed \in 0..Len(chain) /\ CurrentHeight \in Nat
      /\ Len(chain) >= 1
  BY <1>1, LenProperties DEF ChainOK, CurrentHeight
<1>3. ASSUME NEW t, NewBlock(t)
      PROVE  /\ \E T : chain' \in Seq(T)
             /\ Len(chain') = Len(chain) + 1 /\ Len(chain) < MaxBlocks
             /\ \A i \in 1..Len(chain) : chain'[i] = chain[i]
             /\ indexed' = indexed
  <2>1. PICK b : chain' = Append(chain, b) BY <1>3 DEF NewBlock
  <2> DEFINE T == S \union {b}
  <2>2. chain \in Seq(T) /\ b \in T BY <1>1, SeqMonotonic
  <2>3. /\ chain' \in Seq(T) /\ Len(chain') = Len(chain) + 1
        /\ \A i \in 1..Len(chain) : chain'[i] = chain[i]
    BY <2>1, <2>2, AppendProperties
  <2> QED BY <1>3, <2>3 DEF NewBlock
<1>4. /\ \E T : chain' \in Seq(T)
      /\ Len(chain') \in Nat /\ Len(chain) <= Len(chain') /\ Len(chain') - 1 <= MaxUint32
      /\ \A i \in 1..Len(chain) : chain'[i] = chain[i]
      /\ indexed' \in 0..Len(chain') /\ indexed <= indexed'
  <2>1. CASE \E t : NewBlock(t)
    BY <1>2, <1>3, <2>1, ConstructionAssumption
  <2>2. CASE IndexNext \/ UNCHANGED <<chain, indexed>>
    BY <1>1, <1>2, <2>2 DEF IndexNext, ChainOK
  <2> QED BY <2>1, <2>2
<1>5. ChainOK'
  BY <1>2, <1>4 DEF ChainOK, Genesis
<1>6. Known \subseteq Known'
  <2>1. \A b \in 1..indexed : b \in 1..indexed' /\ chain'[b] = chain[b]
    BY <1>2, <1>4
  <2> QED BY <2>1 DEF Known
<1>7. \A h \in 0..CurrentHeight : chain'[h + 1] = chain[h + 1]
  BY <1>2, <1>4 DEF CurrentHeight
<1> QED BY <1>2, <1>4, <1>5, <1>6, <1>7 DEF CurrentHeight

\* Steps that leave the request alone.
LEMMA CallKept ==
  ASSUME ConstructionInv, UNCHANGED call, \A o \in options' : Good(o),
         (\E t : NewBlock(t)) \/ IndexNext \/ UNCHANGED <<chain, indexed>>
  PROVE  ConstructionInv'
<1> USE DEF ConstructionInv
<1>1. /\ ChainOK' /\ Known \subseteq Known'
      /\ CurrentHeight <= CurrentHeight' /\ CurrentHeight \in Nat
      /\ \A h \in 0..CurrentHeight : chain'[h + 1] = chain[h + 1]
  BY Grows
<1>2. CurrentHeight' \in Nat
  <2>1. PICK S : chain' \in Seq(S) BY <1>1 DEF ChainOK
  <2> QED BY <1>1, <2>1, LenProperties DEF ChainOK, CurrentHeight
<1>3. CallOK' BY <1>1, <1>2 DEF CallOK, Request
<1>4. call.pc # "idle" =>
        \A h \in call.end..call.start : chain'[h + 1] = chain[h + 1]
  BY <1>1 DEF CallOK, Request
<1>5. Scanning'
  <2>1. CASE call.pc = "price" BY <1>4, <2>1 DEF Scanning
  <2>2. CASE call.pc # "price" BY <2>2 DEF Scanning
  <2> QED BY <2>1, <2>2
<1>6. Settled'
  <2>1. SUFFICES ASSUME call.pc \in {"random", "given"} PROVE Settled'
    BY DEF Settled
  <2>2. NonEmpty' = NonEmpty BY <1>4, <2>1 DEF NonEmpty
  <2>3. call.height \in NonEmpty => chain'[call.height + 1] = chain[call.height + 1]
    BY <1>4, <2>1 DEF NonEmpty
  <2> QED BY <2>2, <2>3 DEF Settled, PriceFrom
<1> QED BY <1>1, <1>3, <1>5, <1>6

\* An element no other exceeds is the maximum.
LEMMA NewestIsMax ==
  ASSUME NEW S \in SUBSET Int, NEW n \in S, \A m \in S : m <= n
  PROVE  Max(S) = n
<1>1. \A y \in S : n >= y OBVIOUS
<1>2. ASSUME NEW x \in S, \A y \in S : x >= y PROVE x = n BY <1>2
<1> QED BY <1>1, <1>2 DEF Max

\* What the invariant says of a settled price is that the newest block with
\* transactions is where it comes from.
LEMMA SettledIsNewest == ConstructionInv => PriceIsOfNewest
<1> SUFFICES ASSUME ConstructionInv, call.pc \in {"random", "given"}, ~call.missed
             PROVE  PriceIsOfNewest
  BY DEF PriceIsOfNewest
<1>1. CASE NonEmpty = {} /\ call.opts.gasPrice = PriceFrom(0)
  BY <1>1 DEF PriceIsOfNewest, PriceFrom
<1>2. CASE /\ call.height \in NonEmpty /\ \A h \in NonEmpty : h <= call.height
           /\ call.opts.gasPrice = PriceFrom(AveragePrice(chain[call.height + 1]))
  <2>1. NonEmpty \in SUBSET Int BY DEF NonEmpty, ConstructionInv, CallOK, Request
  <2>2. Max(NonEmpty) = call.height BY <1>2, <2>1, NewestIsMax
  <2> QED BY <1>2, <2>2 DEF PriceIsOfNewest, PriceFrom
<1> QED BY <1>1, <1>2 DEF ConstructionInv, Settled

----------------------------------------------------------------------------
(* The steps of a request.                                                 *)

\* The height of a request in its window, whose higher blocks are empty.
LEMMA HeightStep ==
  ASSUME ConstructionInv, HeaderSkipped \/ HeaderFails
  PROVE  ConstructionInv'
<1> USE DEF ConstructionInv
<1>1. /\ call.pc = "price" /\ call.height >= call.end /\ UNCHANGED <<client, node>>
      /\ Request(call) /\ call.start <= CurrentHeight /\ call.seen \subseteq Known
  BY DEF HeaderSkipped, HeaderFails, InWindow, CallOK
<1>2. \E m \in BOOLEAN :
        /\ call' = [call EXCEPT !.height = Below(call.height), !.missed = m]
        /\ ~m => /\ ~call.missed
                 /\ HeaderExists => chain[call.height + 1] = <<>>
  <2>1. CASE HeaderSkipped
    <3>1. call' = [call EXCEPT !.height = Below(call.height), !.missed = call.missed]
      BY <1>1, <2>1 DEF HeaderSkipped, Request
    <3> QED BY <1>1, <2>1, <3>1 DEF HeaderSkipped, NotEmpty, Request
  <2>2. CASE HeaderFails BY <2>2 DEF HeaderFails
  <2> QED BY <2>1, <2>2
<1>3. PICK m \in BOOLEAN :
        /\ call' = [call EXCEPT !.height = Below(call.height), !.missed = m]
        /\ ~m => /\ ~call.missed
                 /\ HeaderExists => chain[call.height + 1] = <<>>
  BY <1>2
<1>4. call' = [ pc |-> "price", opts |-> call.opts, height |-> Below(call.height),
                start |-> call.start, end |-> call.end, tries |-> call.tries,
                seen |-> call.seen, asked |-> call.asked, missed |-> m ]
  BY <1>1, <1>3 DEF Request
<1>5. Below(call.height) \in 0..MaxUint32
  BY <1>1, ConstructionAssumption DEF Below, Request
<1>6. ChainOK' /\ Known' = Known /\ CurrentHeight' = CurrentHeight
  BY <1>1 DEF ChainOK, Known, CurrentHeight, node, Genesis
<1>7. CallOK' BY <1>1, <1>4, <1>5, <1>6 DEF CallOK, Request, Good, Options, client
<1>8. Scanning'
  <2>1. call'.opts.gasPrice = call'.asked BY <1>1, <1>4 DEF Scanning
  <2>2. ASSUME ~m
        PROVE  /\ Below(call.height) <= call.start
               /\ \A h \in call.end..call.start :
                    h > Below(call.height) => chain[h + 1] = <<>>
    <3>1. /\ call.height <= call.start /\ chain[call.height + 1] = <<>>
          /\ \A h \in call.end..call.start : h > call.height => chain[h + 1] = <<>>
      <4>1. /\ call.height <= call.start
            /\ \A h \in call.end..call.start : h > call.height => chain[h + 1] = <<>>
        BY <1>1, <1>3, <2>2 DEF Scanning
      <4>2. CurrentHeight \in Nat BY HeightIsNat
      <4>3. HeaderExists BY <1>1, <4>1, <4>2 DEF HeaderExists, Request
      <4> QED BY <1>3, <2>2, <4>1, <4>3
    <3>2. call.height # 0
      <4>1. chain[0 + 1] = Genesis BY DEF ChainOK
      <4>2. Genesis # <<>> BY DEF Genesis
      <4> QED BY <3>1, <4>1, <4>2
    <3>3. Below(call.height) = call.height - 1 BY <3>2 DEF Below
    <3> QED BY <1>1, <3>1, <3>3 DEF Request
  <2> QED BY <1>1, <1>4, <2>1, <2>2 DEF Scanning, node
<1>9. Settled' BY <1>4 DEF Settled
<1> QED BY <1>6, <1>7, <1>8, <1>9

\* A request whose price is settled.
PricedCall(price, err, m) == call' = [Priced(price, err) EXCEPT !.missed = m]

\* What the end of getGasPrice changes of a request at hand.
LEMMA PricedShape ==
  ASSUME Request(call), call.pc = "price", call.opts.gasPrice = call.asked,
         NEW price, NEW err \in BOOLEAN, NEW m \in BOOLEAN, PricedCall(price, err, m)
  PROVE  /\ call' = [ pc |-> call'.pc, opts |-> call'.opts, height |-> call.height,
                      start |-> call.start, end |-> call.end, tries |-> call.tries,
                      seen |-> call.seen, asked |-> call.asked, missed |-> m ]
         /\ call'.pc \in {"random", "given"} /\ call'.missed = m
         /\ Good(call'.opts)
         /\ ~err => call'.opts.gasPrice = PriceFrom(price)
<1> DEFINE o == call.opts
           gasPrice == IF ~err /\ price > o.gasPrice THEN price
                       ELSE IF o.gasPrice < defaultGasPrice THEN defaultGasPrice
                       ELSE o.gasPrice
           gasLimit == IF o.gasLimit < minGasLimit THEN minGasLimit ELSE o.gasLimit
           opts == [ amount |-> o.amount, contract |-> o.contract, from |-> o.from,
                     to |-> o.to, gasLimit |-> gasLimit, gasPrice |-> gasPrice,
                     nonce |-> o.nonce, payer |-> o.payer ]
<1>1. call' = [ pc |-> IF o.nonce = 0 THEN "random" ELSE "given", opts |-> opts,
                height |-> call.height, start |-> call.start, end |-> call.end,
                tries |-> call.tries, seen |-> call.seen, asked |-> call.asked,
                missed |-> m ]
  BY DEF PricedCall, Priced, Request, Good, Options
<1>2. Good(opts) BY ConstructionAssumption DEF Good, Options, Request
<1>3. ~err => gasPrice = PriceFrom(price) BY DEF PriceFrom
<1> QED BY <1>1, <1>2, <1>3

\* getGasPrice's loop keeps the invariant however it ends: with a price, with a
\* block it could not read, or at the end of the window.
LEMMA PriceStep ==
  ASSUME ConstructionInv, PriceFound \/ BlockFails \/ WindowEnds
  PROVE  ConstructionInv'
<1> USE DEF ConstructionInv
<1>1. /\ call.pc = "price" /\ UNCHANGED <<client, node>>
      /\ Request(call) /\ call.start <= CurrentHeight /\ call.seen \subseteq Known
      /\ call.opts.gasPrice = call.asked /\ call.missed \in BOOLEAN
  BY DEF PriceFound, BlockFails, WindowEnds, InWindow, CallOK, Scanning, Request
<1>2. \/ PriceFound /\ PricedCall(AveragePrice(chain[call.height + 1]), FALSE, call.missed)
      \/ BlockFails /\ PricedCall(0, TRUE, TRUE)
      \/ WindowEnds /\ PricedCall(0, FALSE, call.missed)
  <2>1. ASSUME NEW p, NEW e
        PROVE  [Priced(p, e) EXCEPT !.missed = call.missed] = Priced(p, e)
    BY <1>1 DEF Priced, Request
  <2> QED BY <1>1, <2>1 DEF PriceFound, BlockFails, WindowEnds, PricedCall
<1>3. ChainOK' /\ Known' = Known /\ CurrentHeight' = CurrentHeight /\ NonEmpty' = NonEmpty
      /\ CallOK' /\ Scanning'
      /\ call'.asked = call.asked /\ call'.height = call.height /\ chain' = chain
      /\ call'.missed \in BOOLEAN
  <2>1. PICK price : \E err \in BOOLEAN, m \in BOOLEAN : PricedCall(price, err, m)
    BY <1>1, <1>2, Zenon
  <2>2. PICK err \in BOOLEAN, m \in BOOLEAN : PricedCall(price, err, m) BY <2>1
  <2>3. /\ call' = [ pc |-> call'.pc, opts |-> call'.opts, height |-> call.height,
                     start |-> call.start, end |-> call.end, tries |-> call.tries,
                     seen |-> call.seen, asked |-> call.asked, missed |-> m ]
        /\ call'.pc \in {"random", "given"} /\ Good(call'.opts)
    BY <1>1, <2>2, PricedShape
  <2>4. ChainOK' /\ Known' = Known /\ CurrentHeight' = CurrentHeight /\ chain' = chain
    BY <1>1 DEF ChainOK, Known, CurrentHeight, node, Genesis
  <2>5. NonEmpty' = NonEmpty BY <2>3, <2>4 DEF NonEmpty
  <2>6. CallOK' BY <1>1, <2>3, <2>4 DEF CallOK, Request, Good, Options, client
  <2>7. Scanning' BY <2>3 DEF Scanning
  <2> QED BY <2>3, <2>4, <2>5, <2>6, <2>7
<1>4. Settled'
  <2>1. CASE PriceFound /\ PricedCall(AveragePrice(chain[call.height + 1]), FALSE, call.missed)
    <3>1. /\ call'.opts.gasPrice = PriceFrom(AveragePrice(chain[call.height + 1]))
          /\ call'.missed = call.missed
      BY <1>1, <2>1, PricedShape, Zenon
    <3>2. ~call.missed => /\ call.height \in NonEmpty
                          /\ \A h \in NonEmpty : h <= call.height
      BY <1>1, <2>1 DEF PriceFound, InWindow, NotEmpty, NonEmpty, Scanning, Request
    <3> QED BY <1>3, <3>1, <3>2 DEF Settled, PriceFrom
  <2>2. CASE BlockFails /\ PricedCall(0, TRUE, TRUE)
    <3>1. call'.missed BY <1>1, <2>2, PricedShape, Zenon
    <3> QED BY <3>1 DEF Settled
  <2>3. CASE WindowEnds /\ PricedCall(0, FALSE, call.missed)
    <3>1. call'.opts.gasPrice = PriceFrom(0) /\ call'.missed = call.missed
      BY <1>1, <2>3, PricedShape, Zenon
    <3>2. ~call.missed => NonEmpty = {}
      BY <1>1, <2>3 DEF WindowEnds, NonEmpty, Scanning, Request
    <3> QED BY <1>3, <3>1, <3>2 DEF Settled, PriceFrom
  <2> QED BY <1>2, <2>1, <2>2, <2>3
<1> QED BY <1>3, <1>4

\* getGasPrice begins at the current height, with nothing scanned yet.
LEMMA BeginStep ==
  ASSUME ConstructionInv, NEW o \in Held, MetadataBegins(o)
  PROVE  ConstructionInv'
<1> USE DEF ConstructionInv
<1>1. Good(o) BY DEF Held, CallOK
<1>2. CurrentHeight \in Nat /\ CurrentHeight <= MaxUint32
  BY HeightIsNat DEF ChainOK, CurrentHeight
<1> DEFINE end == IF CurrentHeight > Lookback THEN CurrentHeight - Lookback ELSE 0
<1>3. /\ call' = [ pc |-> "price", opts |-> o, height |-> CurrentHeight,
                   start |-> CurrentHeight, end |-> end, tries |-> 0, seen |-> Known,
                   asked |-> o.gasPrice, missed |-> FALSE ]
      /\ UNCHANGED <<client, node>>
  BY DEF MetadataBegins
<1>4. end \in 0..CurrentHeight BY <1>2, ConstructionAssumption
<1> HIDE DEF end
<1>5. ChainOK' /\ Known' = Known /\ CurrentHeight' = CurrentHeight
  BY <1>3 DEF ChainOK, Known, CurrentHeight, node, Genesis
<1>6. CallOK'
  <2>1. Request(call') BY <1>1, <1>2, <1>3, <1>4, ConstructionAssumption DEF Request
  <2> QED BY <1>2, <1>3, <1>5, <2>1 DEF CallOK, client, Request, Good, Options
<1>7. Scanning' /\ Settled' BY <1>2, <1>3, <1>4 DEF Scanning, Settled
<1> QED BY <1>5, <1>6, <1>7

\* Answers, and the turns of the loop before one.
LEMMA AnswerStep ==
  ASSUME ConstructionInv, MetadataFails \/ GivenNonce \/ \E n \in 0..MaxNonce : TryNonce(n)
  PROVE  ConstructionInv'
<1> USE DEF ConstructionInv
<1>1. /\ call.pc \in {"random", "given"} /\ UNCHANGED <<client, node>>
      /\ Request(call) /\ call.start <= CurrentHeight /\ call.seen \subseteq Known
  BY DEF MetadataFails, GivenNonce, TryNonce, Refuse, Answer, CallOK
<1>2. ChainOK' /\ Known' = Known /\ CurrentHeight' = CurrentHeight
  BY <1>1 DEF ChainOK, Known, CurrentHeight, node, Genesis
<1>3. \/ \E a : call' = Idle(a) /\ (a = nil \/ Good(a))
      \/ call' = [call EXCEPT !.tries = call.tries + 1] /\ call.tries + 1 # Attempts
  <2>1. CASE MetadataFails BY <2>1 DEF MetadataFails, Refuse
  <2>2. CASE GivenNonce BY <1>1, <2>2 DEF GivenNonce, Refuse, Answer, Request
  <2>3. ASSUME NEW n \in 0..MaxNonce, TryNonce(n)
        PROVE  \/ \E a : call' = Idle(a) /\ (a = nil \/ Good(a))
               \/ call' = [call EXCEPT !.tries = call.tries + 1] /\ call.tries + 1 # Attempts
    <3> DEFINE o == [call.opts EXCEPT !.nonce = n]
    <3>1. o = [ amount |-> call.opts.amount, contract |-> call.opts.contract,
                from |-> call.opts.from, to |-> call.opts.to,
                gasLimit |-> call.opts.gasLimit, gasPrice |-> call.opts.gasPrice,
                nonce |-> n, payer |-> call.opts.payer ]
      BY <1>1 DEF Request, Good, Options
    <3>2. Good(o) BY <1>1, <2>3, <3>1 DEF Request, Good, Options
    <3> QED BY <2>3, <3>2 DEF TryNonce, Refuse, Answer
  <2> QED BY <2>1, <2>2, <2>3
<1>4. CASE \E a : call' = Idle(a) /\ (a = nil \/ Good(a))
  <2>1. PICK a : call' = Idle(a) /\ (a = nil \/ Good(a)) BY <1>4
  <2>2. call'.pc = "idle" /\ call'.answer = a BY <2>1 DEF Idle
  <2>3. CallOK' BY <1>1, <2>1, <2>2 DEF CallOK, client, Idle, Good, Options
  <2> QED BY <1>2, <2>2, <2>3 DEF Scanning, Settled
<1>5. CASE call' = [call EXCEPT !.tries = call.tries + 1] /\ call.tries + 1 # Attempts
  <2>1. call' = [ pc |-> call.pc, opts |-> call.opts, height |-> call.height,
                  start |-> call.start, end |-> call.end, tries |-> call.tries + 1,
                  seen |-> call.seen, asked |-> call.asked, missed |-> call.missed ]
    BY <1>1, <1>5 DEF Request
  <2>2. call.tries + 1 \in 0..(Attempts - 1)
    BY <1>1, <1>5, ConstructionAssumption DEF Request
  <2>3. CallOK' BY <1>1, <1>2, <2>1, <2>2 DEF CallOK, Request, client, Good, Options
  <2>4. Scanning' BY <1>1, <2>1 DEF Scanning
  <2>5. Settled' BY <1>1, <2>1 DEF Settled, NonEmpty, PriceFrom, node
  <2> QED BY <1>2, <2>3, <2>4, <2>5
<1> QED BY <1>3, <1>4, <1>5

\* Options that preprocess hands out are those of valid operations.
LEMMA PreprocessStep ==
  ASSUME ConstructionInv, NEW r \in Requests, ConstructionPreprocess(r)
  PROVE  ConstructionInv'
<1> DEFINE xfer == TransferOf(r.ops)
           o == [ amount |-> xfer.amount, contract |-> xfer.contract,
                  from |-> xfer.from, to |-> xfer.to,
                  gasLimit |-> GasLimitOf(r.gasLimit), gasPrice |-> GasPriceOf(r.gasPrice),
                  nonce |-> NonceOf(r.nonce),
                  payer |-> IF r.payer \in {nil, nullAddr} THEN xfer.from ELSE r.payer ]
<1>1. /\ options' = options \union {o} /\ UNCHANGED <<node, call>>
      /\ ValidFields(r) /\ validateOps(r.ops)
  BY DEF ConstructionPreprocess
<1>2. Good(o)
  <2>1. NonceOf(r.nonce) \in 0..MaxNonce
    BY <1>1, RequestAssumption, ConstructionAssumption DEF ValidFields, NonceOf
  <2>2. /\ GasLimitOf(r.gasLimit) \in Nat
        /\ GasLimitOf(r.gasLimit) = 0 \/ GasLimitOf(r.gasLimit) >= minGasLimit
    BY <1>1, RequestAssumption, ConstructionAssumption DEF ValidFields, GasLimitOf
  <2>3. /\ xfer.amount \in Nat \ {0} /\ xfer.contract \in Tokens /\ xfer.from # nullAddr
    BY <1>1, ValidAmount
  <2> QED BY <2>1, <2>2, <2>3 DEF Good, Options
<1>3. \A p \in options' : Good(p) BY <1>1, <1>2 DEF ConstructionInv, CallOK
<1> QED BY <1>1, <1>3, CallKept DEF node

\* Every step of the service and of the node keeps the invariant.
LEMMA StepConstructionInv == ConstructionInv /\ [Next]_vars => ConstructionInv'
<1> SUFFICES ASSUME ConstructionInv, [Next]_vars PROVE ConstructionInv' OBVIOUS
<1>1. ASSUME UNCHANGED <<options, call>>,
             (\E t : NewBlock(t)) \/ IndexNext \/ UNCHANGED <<chain, indexed>>
      PROVE  ConstructionInv'
  BY <1>1, CallKept DEF ConstructionInv, CallOK, Good, Options
<1>2. CASE Metadata
  BY <1>2, HeightStep, PriceStep, AnswerStep DEF Metadata
<1>3. ASSUME NEW o \in Held, MetadataBegins(o) PROVE ConstructionInv' BY <1>3, BeginStep
<1>4. ASSUME NEW r \in Requests, ConstructionPreprocess(r) PROVE ConstructionInv'
  BY <1>4, PreprocessStep
<1>5. ASSUME NEW o \in Held, NEW r \in Requests, ConstructionPayloads(o, r.ops)
      PROVE  ConstructionInv'
  BY <1>1, <1>5 DEF ConstructionPayloads, node
<1>6. ASSUME NEW u, NEW sigs, ConstructionCombine(u, sigs) PROVE ConstructionInv'
  BY <1>1, <1>6 DEF ConstructionCombine, node
<1>7. ASSUME NEW txn, NEW keys, AppendTxToPool(txn, keys) PROVE ConstructionInv'
  BY <1>1, <1>7 DEF AppendTxToPool, client
<1>8. ASSUME NEW txns, NewBlock(txns) PROVE ConstructionInv'
  BY <1>1, <1>8 DEF NewBlock, client
<1>9. CASE IndexNext BY <1>1, <1>9 DEF IndexNext, client
<1>10. CASE UNCHANGED vars BY <1>1, <1>10 DEF vars
<1> QED
  BY <1>2, <1>3, <1>4, <1>5, <1>6, <1>7, <1>8, <1>9, <1>10
  DEF Next, ConstructionSubmit, ForeignSubmit

\* What is known of the chain, of the metadata request at hand and of how far
\* getGasPrice has scanned holds in every reachable state.
THEOREM InductiveConstruction == Spec => []ConstructionInv
<1> QED BY InitConstructionInv, StepConstructionInv, PTL DEF Spec

\* Options speak of a transfer of a known token from somebody, and a request at
\* hand of heights the chain has had, whatever the client sends along.
THEOREM ConstructionTypes == Spec => []TypeOK
<1>1. ConstructionInv => TypeOK
  <2> SUFFICES ASSUME ConstructionInv PROVE TypeOK OBVIOUS
  <2>1. \A o \in Held : Good(o) BY DEF ConstructionInv, CallOK, Held
  <2> QED BY <2>1 DEF ConstructionInv, ChainOK, CallOK, Request, Good, TypeOK
<1> QED BY <1>1, InductiveConstruction, PTL

\* The price /metadata answers is that of the newest block with transactions in
\* its window, however the chain has grown and however long the scan went on
\* (construction_service.go 203-210 and 766-789).
THEOREM NewestPrice == Spec => []PriceIsOfNewest
<1> QED BY SettledIsNewest, InductiveConstruction, PTL

\* The nonce /metadata answers makes a transaction that was not indexed when the
\* request came in, unless it is the last of all the attempts
\* (construction_service.go 214-255).
THEOREM FreeNonce == Spec => NonceFree
<1>1. ConstructionInv /\ [Next]_vars =>
        [ call.pc # "idle" /\ call'.pc = "idle" /\ call'.answer # nil =>
            \/ Hash(constructTransfer(call'.answer)) \notin call.seen
            \/ call.pc = "random" /\ call.tries + 1 = Attempts ]_vars
  <2> SUFFICES ASSUME ConstructionInv, Next, call.pc # "idle", call'.pc = "idle",
                      call'.answer # nil
               PROVE  \/ Hash(constructTransfer(call'.answer)) \notin call.seen
                      \/ call.pc = "random" /\ call.tries + 1 = Attempts
    BY DEF vars
  <2>1. Request(call) /\ call.seen \subseteq Known BY DEF ConstructionInv, CallOK
  <2>2. CASE HeaderSkipped \/ HeaderFails
    BY <2>1, <2>2 DEF HeaderSkipped, HeaderFails, Request
  <2>3. CASE PriceFound \/ BlockFails \/ WindowEnds
    BY <2>1, <2>3 DEF PriceFound, BlockFails, WindowEnds, Priced, Request
  <2>4. ASSUME NEW n \in 0..MaxNonce, TryNonce(n)
        PROVE  \/ Hash(constructTransfer(call'.answer)) \notin call.seen
               \/ call.pc = "random" /\ call.tries + 1 = Attempts
    <3>1. \/ call'.answer = nil
          \/ call'.pc = call.pc
          \/ Hash(constructTransfer(call'.answer)) \notin Known \/ call.tries + 1 = Attempts
      BY <2>1, <2>4 DEF TryNonce, Refuse, Answer, Idle, Request
    <3> QED BY <2>1, <2>4, <3>1 DEF TryNonce
  <2>5. CASE GivenNonce
    BY <2>1, <2>5 DEF GivenNonce, Refuse, Answer, Idle
  <2>6. CASE MetadataFails
    BY <2>6 DEF MetadataFails, Refuse, Idle
  <2>7. call' = call \/ Metadata
    BY DEF Next, ConstructionPreprocess, MetadataBegins, ConstructionPayloads,
       ConstructionCombine, ConstructionSubmit, ForeignSubmit, AppendTxToPool, NewBlock,
       IndexNext
  <2> QED BY <2>2, <2>3, <2>4, <2>5, <2>6, <2>7 DEF Metadata
<1> QED BY <1>1, InductiveConstruction, PTL DEF Spec, NonceFree

----------------------------------------------------------------------------
(* What /mempool/transaction tells.                                        *)

\* The transactions that may be submitted, and the blocks made of them.
Sent == {u.txn : u \in unsigned} \union {f.txn : f \in ForeignTxns}

OneEach(b) == b = <<>> \/ \E t : b = <<t>> /\ t.txn \in Sent /\ t.failed \in BOOLEAN

PoolInv ==
  /\ \A s \in signed : s.txn \in Sent
  /\ \A p \in pool : p.txn \in Sent
  /\ \A b \in 2..Len(chain) : OneEach(chain[b])

\* The sequence of no element, and of one.
LEMMA SetToSeqOne ==
  /\ SetToSeq({}) = <<>>
  /\ \A x : SetToSeq({x}) = <<x>>
<1>1. SetToSeq({}) = <<>>
  <2>1. Cardinality({}) = 0 BY FS_EmptySet
  <2>2. 1..0 = {} OBVIOUS
  <2>3. \A f \in [{} -> {}] : f = <<>> OBVIOUS
  <2>4. <<>> \in [{} -> {}] OBVIOUS
  <2>5. IsInjective(<<>>) BY DEF IsInjective
  <2> QED BY <2>1, <2>2, <2>3, <2>4, <2>5 DEF SetToSeq
<1>2. ASSUME NEW x PROVE SetToSeq({x}) = <<x>>
  <2>1. Cardinality({x}) = 1 BY FS_Singleton
  <2>2. 1..1 = {1} OBVIOUS
  <2>3. \A f \in [{1} -> {x}] : f = <<x>> OBVIOUS
  <2>4. <<x>> \in [{1} -> {x}] OBVIOUS
  <2>5. IsInjective(<<x>>) BY DEF IsInjective
  <2> QED BY <2>1, <2>2, <2>3, <2>4, <2>5 DEF SetToSeq
<1> QED BY <1>1, <1>2

\* Nothing handed out is taken back, and only what was handed out, or comes
\* from another wallet, is signed, submitted and put in a block.
LEMMA StepPoolInv == PoolInv /\ ChainOK /\ [Next]_vars => PoolInv'
<1> SUFFICES ASSUME PoolInv, ChainOK, [Next]_vars PROVE PoolInv' OBVIOUS
<1>1. PICK S : chain \in Seq(S) BY DEF ChainOK
<1>2. Len(chain) \in Nat BY <1>1
<1>3. ASSUME Sent \subseteq Sent', \A s \in signed' : s \in signed \/ s.txn \in Sent',
             \A p \in pool' : p \in pool \/ p.txn \in Sent',
             \A b \in 2..Len(chain') : \/ b \in 2..Len(chain) /\ chain'[b] = chain[b]
                                      \/ OneEach(chain[b])'
      PROVE  PoolInv'
  BY <1>3 DEF PoolInv, OneEach
<1>4. ASSUME UNCHANGED unsigned PROVE Sent' = Sent BY <1>4 DEF Sent
<1>5. ASSUME NEW o \in Held, NEW r \in Requests, ConstructionPayloads(o, r.ops)
      PROVE  PoolInv'
  BY <1>3, <1>5 DEF ConstructionPayloads, node, Sent
<1>6. ASSUME NEW u \in {[txn |-> u.txn, sigs |-> {}] : u \in unsigned} \union signed,
             NEW sigs, ConstructionCombine(u, sigs)
      PROVE  PoolInv'
  <2>1. u.txn \in Sent BY DEF PoolInv, Sent
  <2> QED BY <1>3, <1>4, <1>6, <2>1 DEF ConstructionCombine, node
<1>7. ASSUME NEW txn \in Sent, NEW keys, AppendTxToPool(txn, keys) PROVE PoolInv'
  BY <1>3, <1>4, <1>7 DEF AppendTxToPool, client
<1>8. ASSUME NEW txns \in {{}} \union {{p} : p \in pool}, NewBlock(txns) PROVE PoolInv'
  <2> DEFINE made(p) == [txn |-> p.txn, failed |-> ~(Witnesses(p.txn.code) \subseteq p.keys)]
             new == SetToSeq({made(p) : p \in txns})
  <2>1. UNCHANGED <<unsigned, signed>> /\ pool' \subseteq pool /\ chain' = Append(chain, new)
    BY <1>8 DEF NewBlock, client
  <2>2. OneEach(new)
    <3>1. CASE txns = {}
      <4>1. {made(p) : p \in txns} = {} BY <3>1
      <4> QED BY <4>1, SetToSeqOne DEF OneEach
    <3>2. ASSUME NEW p \in pool, txns = {p} PROVE OneEach(new)
      <4>1. {made(q) : q \in txns} = {made(p)} BY <3>2
      <4>2. new = <<made(p)>> BY <4>1, SetToSeqOne
      <4>3. made(p).txn \in Sent /\ made(p).failed \in BOOLEAN BY DEF PoolInv
      <4> HIDE DEF new, made
      <4> QED BY <4>2, <4>3 DEF OneEach
    <3> QED BY <3>1, <3>2
  <2> HIDE DEF new
  <2>3. /\ Len(chain') = Len(chain) + 1 /\ chain'[Len(chain) + 1] = new
        /\ \A b \in 1..Len(chain) : chain'[b] = chain[b]
    <3>1. chain \in Seq(S \union {new}) BY <1>1, SeqMonotonic
    <3> QED BY <2>1, <3>1, AppendProperties
  <2>4. OneEach(new)' BY <2>1, <2>2, <1>4 DEF OneEach, new
  <2> QED BY <1>2, <1>3, <1>4, <2>1, <2>2, <2>3 DEF OneEach
<1>9. ASSUME UNCHANGED <<unsigned, signed, pool, chain>> PROVE PoolInv'
  BY <1>3, <1>4, <1>9
<1>10. CASE Metadata
  <2>1. UNCHANGED <<client, node>>
    BY <1>10 DEF Metadata, HeaderSkipped, HeaderFails, PriceFound, BlockFails, WindowEnds,
       TryNonce, GivenNonce, MetadataFails, Refuse, Answer
  <2> QED BY <1>9, <2>1 DEF client, node
<1>11. CASE \E s \in signed : ConstructionSubmit(s)
  BY <1>7, <1>11 DEF ConstructionSubmit, PoolInv
<1>12. CASE \E f \in ForeignTxns : ForeignSubmit(f)
  BY <1>7, <1>12 DEF ForeignSubmit, Sent
<1>13. CASE \E r \in Requests : ConstructionPreprocess(r)
  BY <1>9, <1>13 DEF ConstructionPreprocess, node
<1>14. CASE \E o \in Held : MetadataBegins(o)
  BY <1>9, <1>14 DEF MetadataBegins, client, node
<1>15. CASE IndexNext BY <1>9, <1>15 DEF IndexNext, client
<1>16. CASE UNCHANGED vars BY <1>9, <1>16 DEF vars, client, node
<1> QED
  BY <1>5, <1>6, <1>8, <1>10, <1>11, <1>12, <1>13, <1>14, <1>15, <1>16 DEF Next

\* At first nothing was submitted, and no block but the genesis was made.
LEMMA InitPoolInv == Init => PoolInv
<1> SUFFICES ASSUME Init PROVE PoolInv OBVIOUS
<1>1. signed = {} /\ pool = {} /\ Len(chain) = 1 BY DEF Init
<1>2. 2..1 = {} OBVIOUS
<1> QED BY <1>1, <1>2 DEF PoolInv

\* A turn of the sum over the operations that concern an account and a token.
DeltaTurn(env, n, op) == IF <<op.acct, op.contract>> = env THEN n + op.value ELSE n

Deltas == INSTANCE Folding WITH Step <- DeltaTurn, Top <- Max

\* The change of a balance by operations is what they move.
LEMMA DeltaIsMoved ==
  ASSUME NEW ops, IsOps(ops), NEW k
  PROVE  Delta(ops, k) = OpsMoved(k, ops) /\ OpsMoved(k, ops) \in Int
<1> DEFINE n == Len(ops)
           v == [j \in DOMAIN ops |-> OpMoved(k, ops[j])]
           g == CHOOSE g : g = [s \in SUBSET DOMAIN ops |->
                  IF s = {} THEN 0 ELSE DeltaTurn(k, g[s \ {Max(s)}], ops[Max(s)])]
<1>1. SumOf(v) = OpsMoved(k, ops) BY DEF OpsMoved
<1>2. n \in Nat /\ DOMAIN ops = 1..n BY ListDomain DEF IsOps
<1>3. Delta(ops, k) = g[DOMAIN ops] BY DEF Delta, FoldLeft, MapThenFoldSet, DeltaTurn
<1>4. Deltas!Iterates(g, k, 0, ops)
  <2>1. \E x : Deltas!Iterates(x, k, 0, ops)
    BY <1>2, Deltas!IteratesExist, MaxIs DEF Deltas!TopIsMax
  <2> QED BY <2>1 DEF Deltas!Iterates
<1> HIDE DEF g
<1>5. PICK f : Deltas!Trace(f, k, 0, ops) /\ f[n] = g[DOMAIN ops]
  BY <1>2, <1>4, Deltas!IteratesTrace, MaxIs DEF Deltas!TopIsMax
<1>6. f[0] = 0 /\ \A j \in 1..n : f[j] = DeltaTurn(k, f[j - 1], ops[j])
  BY <1>5 DEF Deltas!Trace
<1>7. \A j \in 1..n : ops[j].value \in Int BY DEF IsOps, Refers
<1> DEFINE S == {j \in 0..n : f[j] \in Int}
<1>8. 0 \in S BY <1>2, <1>6
<1>9. ASSUME NEW j \in 0..(n - 1), j \in S PROVE j + 1 \in S
  <2>1. j + 1 \in 1..n /\ j + 1 \in 0..n /\ (j + 1) - 1 = j BY <1>2
  <2>2. f[j] \in Int /\ ops[j + 1].value \in Int /\ f[j + 1] = DeltaTurn(k, f[j], ops[j + 1])
    BY <1>6, <1>7, <1>9, <2>1
  <2> QED BY <2>1, <2>2 DEF DeltaTurn
<1> HIDE DEF S
<1>10. 0..n \subseteq S BY <1>2, <1>8, <1>9, Deltas!Induction
<1>11. \A j \in 0..n : f[j] \in Int BY <1>10 DEF S
<1>12. ASSUME NEW j \in 1..n PROVE v[j] \in Int /\ f[j] = f[j - 1] + v[j]
  <2>1. j - 1 \in 0..n BY <1>2
  <2>2. v[j] = OpMoved(k, ops[j]) BY <1>2
  <2>3. f[j - 1] \in Int /\ ops[j].value \in Int /\ f[j] = DeltaTurn(k, f[j - 1], ops[j])
    BY <1>6, <1>7, <1>11, <2>1
  <2> QED BY <2>2, <2>3 DEF OpMoved, DeltaTurn
<1>13. DOMAIN v = 1..n /\ Len(v) = n BY <1>2
<1> HIDE DEF v, n
<1>14. SumOf(v) \in Int /\ f[n] = f[0] + SumOf(v) BY <1>2, <1>11, <1>12, <1>13, SumFollows
<1> QED BY <1>1, <1>3, <1>5, <1>6, <1>14

\* The arguments parsePayload reads are those the node executes.
LEMMA Parsed ==
  ASSUME NEW code, ParsePayload(code).ok
  PROVE  ParsePayload(code).xfers
           = [i \in DOMAIN Arguments(code) |-> parseTransferFields(Arguments(code)[i])]
<1> DEFINE Taken(tuples) == [i \in DOMAIN tuples |-> parseTransferFields(tuples[i])]
<1>1. ASSUME NEW tuples, parseTransfers(tuples).ok
      PROVE  parseTransfers(tuples).xfers = Taken(tuples)
  BY <1>1 DEF parseTransfers, Failed
<1>2. CASE Multi(code) /\ code.op = "APPCALL"
  <2>1. code.method = "transferMulti" BY <1>2 DEF Multi
  <2>2. Arguments(code) = code.params[1] BY <2>1 DEF Arguments
  <2>3. ParsePayload(code) = parseTransfers(code.params[1]) BY <1>2 DEF ParsePayload
  <2> HIDE DEF Taken
  <2>4. ParsePayload(code).xfers = Taken(code.params[1]) BY <1>1, <2>3
  <2> QED BY <2>2, <2>4 DEF Taken
<1>3. CASE Multi(code) /\ code.op # "APPCALL"
  <2>1. code.op = "SYSCALL" /\ code.method \in {"transfer", "transferV2"} BY <1>3 DEF Multi
  <2>2. Arguments(code) = code.params BY <2>1 DEF Arguments
  <2>3. ParsePayload(code) = parseTransfers(code.params) BY <1>3 DEF ParsePayload
  <2> HIDE DEF Taken
  <2>4. ParsePayload(code).xfers = Taken(code.params) BY <1>1, <2>3
  <2> QED BY <2>2, <2>4 DEF Taken
<1>4. CASE ~Multi(code) /\ From(code)
  <2>1. code.method \in {"transferFrom", "transferFromV2"} BY <1>4 DEF From
  <2>2. Arguments(code) = <<Tail(code.params)>> BY <2>1 DEF Arguments
  <2>3. ParsePayload(code) = [ok |-> TRUE, xfers |-> <<parseTransferFromFields(code.params)>>]
    BY <1>4 DEF ParsePayload, Failed
  <2>4. ParsePayload(code).xfers = <<parseTransferFields(Tail(code.params))>>
    BY <2>3 DEF parseTransferFromFields
  <2>5. PICK t : t = Tail(code.params) OBVIOUS
  <2>6. [i \in DOMAIN <<t>> |-> parseTransferFields(<<t>>[i])] = <<parseTransferFields(t)>>
    OBVIOUS
  <2> QED BY <2>2, <2>4, <2>5, <2>6
<1>5. CASE ~Multi(code) /\ ~From(code)
  <2>1. code.op = "APPCALL" /\ code.method = "transfer"
    BY <1>5 DEF ParsePayload, Failed
  <2>2. Arguments(code) = <<code.params>> BY <2>1 DEF Arguments
  <2>3. ParsePayload(code) = parseTransfers(<<code.params>>) BY <1>5, <2>1 DEF ParsePayload
  <2> HIDE DEF Taken
  <2>4. ParsePayload(code).xfers = Taken(<<code.params>>) BY <1>1, <2>3
  <2> QED BY <2>2, <2>4 DEF Taken
<1> QED BY <1>2, <1>3, <1>4, <1>5

\* The indexer reads of the event of a transfer what was asked for.
LEMMA EventOfTransfer ==
  ASSUME NEW code, ~InGWei(code), code.op = "SYSCALL" <=> isNative(code.contract),
         NEW t, t[3] \in Nat, NEW gas
  PROVE  LET e == EventOf(code, t) IN
         /\ Readable(e) /\ Decode(e, gas).ok /\ Amount(e) = t[3]
         /\ e.from = t[1] /\ e.to = t[2] /\ e.contract = code.contract
<1> DEFINE e == EventOf(code, t)
<1>1. GWei \in Nat \ {0} BY TransfersAssumption
<1>2. CASE isNative(code.contract)
  <2>1. e = Event("native5", code.contract, t, t[3] \div GWei, t[3] % GWei)
    BY <1>2 DEF EventOf
  <2>2. /\ e.form = "native5" /\ e.contract = code.contract /\ e.name = "transfer"
        /\ e.from = t[1] /\ e.to = t[2] /\ e.amount = t[3] \div GWei /\ e.value = t[3] % GWei
    BY <2>1 DEF Event
  <2>3. e.amount \in Int /\ e.value \in 0..(GWei - 1) BY <1>1, <2>2
  <2>4. e.amount * GWei + e.value = t[3] BY <1>1, <2>2, Division
  <2> HIDE DEF e
  <2>5. Decode(e, gas).ok
    BY <1>2, <2>2 DEF Decode, DecodeNative, Transfer, isNative
  <2> QED BY <2>2, <2>3, <2>4, <2>5 DEF Readable, Amount, e
<1>3. CASE ~isNative(code.contract)
  <2>1. e = Event("oep4", code.contract, t, t[3], 0)
    BY <1>3 DEF EventOf
  <2>2. /\ e.form = "oep4" /\ e.contract = code.contract /\ e.name = "transfer"
        /\ e.from = t[1] /\ e.to = t[2] /\ e.amount = t[3] /\ e.value = 0
    BY <2>1 DEF Event
  <2> HIDE DEF e
  <2>3. Decode(e, gas).ok
    BY <1>3, <2>2 DEF Decode, DecodeOEP4, Transfer, isNative
  <2> QED BY <1>1, <2>2, <2>3 DEF Readable, Amount, e
<1> QED BY <1>2, <1>3

\* The transfers of a payload, and the one that pays the fee.
Moves(code) ==
  [i \in DOMAIN Arguments(code) |->
     [amount |-> Arguments(code)[i][3], contract |-> code.contract,
      from |-> Arguments(code)[i][1], to |-> Arguments(code)[i][2], isGas |-> FALSE]]

FeeOf(payer) ==
  [amount |-> Gas * GWei, contract |-> ONG, from |-> payer, to |-> govAddr, isGas |-> TRUE]

\* What /mempool/transaction tells are the operations of those transfers.
LEMMA ToldOps ==
  ASSUME NEW code, parsePayload(code).ok
  PROVE  /\ ParsePayload(code).ok /\ code.contract \in Tokens
         /\ parsePayload(code).ops = Operations(Moves(code))
<1> DEFINE p == ParsePayload(code)
           xs == [i \in DOMAIN p.xfers |->
                    [amount |-> p.xfers[i].amount, contract |-> code.contract,
                     from |-> p.xfers[i].from, to |-> p.xfers[i].to, isGas |-> FALSE]]
           args == Arguments(code)
<1>1. p.ok /\ code.contract \in Tokens /\ parsePayload(code).ops = Operations(xs)
  BY DEF parsePayload, Failed
<1>2. p.xfers = [i \in DOMAIN args |-> parseTransferFields(args[i])] BY <1>1, Parsed
<1> HIDE DEF p, args
<1>3. DOMAIN p.xfers = DOMAIN args BY <1>2
<1>4. \A i \in DOMAIN args : /\ p.xfers[i].amount = args[i][3]
                             /\ p.xfers[i].from = args[i][1] /\ p.xfers[i].to = args[i][2]
  BY <1>2 DEF parseTransferFields
<1>5. xs = Moves(code) BY <1>3, <1>4 DEF Moves, args
<1> QED BY <1>1, <1>5 DEF p

\* They are a list of amounts.
LEMMA MovesAreList ==
  ASSUME NEW code, Callable(code)
  PROVE  /\ IsList(Arguments(code)) /\ IsList(Moves(code))
         /\ Len(Moves(code)) = Len(Arguments(code))
         /\ \A i \in 1..Len(Arguments(code)) :
              /\ Arguments(code)[i][3] \in Nat
              /\ Moves(code)[i].amount = Arguments(code)[i][3]
              /\ Moves(code)[i].contract = code.contract
              /\ Moves(code)[i].from = Arguments(code)[i][1]
              /\ Moves(code)[i].to = Arguments(code)[i][2]
<1> DEFINE args == Arguments(code)
           n == Len(args)
           xs == Moves(code)
           S == {xs[i] : i \in 1..n}
<1>1. args \in Seq(ToSet(args)) /\ \A i \in DOMAIN args : args[i][3] \in Nat BY DEF Callable
<1>2. IsList(args) BY <1>1 DEF IsList
<1>3. n \in Nat /\ DOMAIN args = 1..n BY <1>2, ListDomain
<1>4. \A i \in 1..n :
        /\ xs[i].amount = args[i][3] /\ xs[i].contract = code.contract
        /\ xs[i].from = args[i][1] /\ xs[i].to = args[i][2]
  BY <1>3 DEF Moves
<1>5. xs = [i \in 1..n |-> xs[i]] BY <1>3 DEF Moves
<1> HIDE DEF xs, n, args
<1>6. xs \in Seq(S) /\ Len(xs) = n
  <2>1. \A i \in 1..n : xs[i] \in S OBVIOUS
  <2>2. xs \in [1..n -> S] BY <1>5, <2>1
  <2> QED BY <1>3, <2>2
<1>7. IsList(xs) BY <1>6 DEF IsList
<1> QED BY <1>1, <1>2, <1>3, <1>4, <1>6, <1>7 DEF xs, n, args

\* The fee moves what the operations appended for it do.
LEMMA FeeMoves ==
  ASSUME NEW payer, NEW k
  PROVE  /\ IsOps(FeeOps(payer)) /\ MovedBy(k, ONG, FeeOf(payer)) \in Int
         /\ OpsMoved(k, FeeOps(payer)) = MovedBy(k, ONG, FeeOf(payer))
<1> DEFINE x == FeeOf(payer)
<1>1. x.amount \in Int /\ x.contract = ONG
  <2>1. Gas * GWei \in Int BY TransfersAssumption, ConstructionAssumption
  <2> QED BY <2>1 DEF FeeOf
<1>2. FeeOps(payer) = Operations(<<x>>) BY DEF FeeOps, FeeOf
<1> HIDE DEF x
<1>3. Append(<<>>, x) = <<x>> OBVIOUS
<1>4. IsList(<<x>>) /\ Len(<<x>>) = 1 /\ <<x>>[1] = x
  <2>1. <<x>> \in Seq({x}) OBVIOUS
  <2> QED BY <2>1 DEF IsList
<1>5. \A j \in 1..Len(<<x>>) : <<x>>[j].amount \in Int BY <1>1, <1>4
<1>6. XMoved(k, <<x>>) = MovedBy(k, ONG, x)
  <2>1. \A j \in 1..Len(<<>>) : <<>>[j].amount \in Int BY EmptyList
  <2>2. XMoved(k, Append(<<>>, x)) = XMoved(k, <<>>) + MovedBy(k, x.contract, x)
    BY <1>1, <2>1, EmptyList, XMovedAppend
  <2>3. MovedBy(k, ONG, x) \in Int BY <1>1 DEF MovedBy
  <2> QED BY <1>1, <1>3, <2>2, <2>3, XMovedNone
<1>7. MovedBy(k, ONG, x) \in Int BY <1>1 DEF MovedBy
<1>8. IsOps(Operations(<<x>>)) /\ OpsMoved(k, Operations(<<x>>)) = XMoved(k, <<x>>)
  BY <1>4, <1>5, AnswersAddUp
<1> QED BY <1>2, <1>6, <1>7, <1>8 DEF x

\* What a script does after its first call is executed as it stands.
LEMMA RestMoves ==
  ASSUME NEW txn, Callable(txn.code), NEW k
  PROVE  LET y == AfterFirstCall(txn)
             later == txn.code.rest.notify
         IN  /\ IsTxn(y) /\ ~y.failed /\ y.gas = Gas /\ y.notify = later /\ IsList(later)
             /\ \A j \in 1..Len(later) : /\ Readable(later[j])
                                        /\ EventMoves(k, later[j], Gas, Tokens) \in Int
<1> DEFINE later == txn.code.rest.notify
           y == AfterFirstCall(txn)
<1>1. later \in Seq(ToSet(later)) /\ \A j \in DOMAIN later : Readable(later[j])
  BY DEF Callable
<1>2. ~y.failed /\ y.gas = Gas /\ y.notify = later BY DEF AfterFirstCall
<1> HIDE DEF later, y
<1>3. IsList(later) BY <1>1 DEF IsList
<1>4. \A j \in 1..Len(later) : Readable(later[j]) BY <1>1, <1>3, ListDomain
<1>5. IsTxn(y) BY <1>2, <1>3, <1>4 DEF IsTxn
<1>6. ASSUME NEW j \in 1..Len(later) PROVE EventMoves(k, later[j], Gas, Tokens) \in Int
  <2>1. PICK a \in Int : a = Amount(later[j]) BY <1>4, AmountIsInt
  <2>2. Shown(later[j]).amount \in Int BY <2>1 DEF Shown
  <2> QED BY <2>2 DEF EventMoves, MovedBy
<1> QED BY <1>2, <1>3, <1>4, <1>5, <1>6 DEF later, y

\* The events of a transaction the node has executed move what its first call
\* says, what the rest of its script does, and the fee.
LEMMA ExecutedMoves ==
  ASSUME NEW txn, Callable(txn.code), ~InGWei(txn.code), txn.code.contract \in Tokens, NEW k
  PROVE  LET x == Executed(txn, FALSE, Gas) IN
         /\ IsTxn(x) /\ ~x.failed
         /\ XMoved(k, Moves(txn.code)) \in Int
         /\ EventsMove(k, AfterFirstCall(txn), Tokens) \in Int
         /\ EventsMove(k, x, Tokens)
              = XMoved(k, Moves(txn.code)) + EventsMove(k, AfterFirstCall(txn), Tokens)
                + MovedBy(k, ONG, FeeOf(txn.payer))
<1> DEFINE code == txn.code
           args == Arguments(code)
           n == Len(args)
           xs == Moves(code)
           x == Executed(txn, FALSE, Gas)
           ev == [i \in DOMAIN args |-> EventOf(code, args[i])]
           later == code.rest.notify
           m == Len(later)
           evs == ev \o later
           y == AfterFirstCall(txn)
           fee == Event("native4", ONG, <<txn.payer, govAddr>>, Gas, 0)
           v == [j \in DOMAIN xs |-> MovedBy(k, xs[j].contract, xs[j])]
           u == [j \in DOMAIN y.notify |-> EventMoves(k, y.notify[j], y.gas, Tokens)]
           vu == [j \in DOMAIN evs |-> EventMoves(k, evs[j], Gas, Tokens)]
           w == [j \in DOMAIN x.notify |-> EventMoves(k, x.notify[j], x.gas, Tokens)]
<1>0. /\ SumOf(v) = XMoved(k, xs) /\ SumOf(u) = EventsMove(k, y, Tokens)
      /\ SumOf(w) = EventsMove(k, x, Tokens)
  BY DEF XMoved, EventsMove
<1>1. x.notify = Append(evs, fee) /\ ~x.failed /\ x.gas = Gas BY DEF Executed
<1>2. /\ IsList(args) /\ IsList(xs) /\ Len(xs) = n
      /\ \A i \in 1..n :
           /\ args[i][3] \in Nat
           /\ xs[i].amount = args[i][3] /\ xs[i].contract = code.contract
           /\ xs[i].from = args[i][1] /\ xs[i].to = args[i][2]
  BY MovesAreList
<1>3. n \in Nat /\ DOMAIN args = 1..n /\ DOMAIN xs = 1..n BY <1>2, ListDomain
<1>4. IsList(ev) /\ Len(ev) = n /\ \A i \in 1..n : ev[i] = EventOf(code, args[i])
  <2> DEFINE S == {ev[i] : i \in 1..n}
  <2>1. ev = [i \in 1..n |-> ev[i]] /\ \A i \in 1..n : ev[i] = EventOf(code, args[i])
    BY <1>3
  <2> HIDE DEF ev, n
  <2>2. \A i \in 1..n : ev[i] \in S OBVIOUS
  <2>3. ev \in [1..n -> S] BY <2>1, <2>2
  <2>4. ev \in Seq(S) /\ Len(ev) = n BY <1>3, <2>3
  <2> QED BY <2>1, <2>4 DEF IsList
<1> HIDE DEF ev, xs, x, args, n, fee, later, m, evs, y
<1>5. /\ y.gas = Gas /\ y.notify = later /\ IsList(later) /\ m \in Nat /\ DOMAIN later = 1..m
      /\ \A j \in 1..m : /\ Readable(later[j])
                          /\ EventMoves(k, later[j], Gas, Tokens) \in Int
  BY RestMoves, ListDomain DEF later, m, y
<1>6. /\ IsList(evs) /\ Len(evs) = n + m /\ DOMAIN evs = 1..(n + m)
      /\ \A i \in 1..n : evs[i] = ev[i]
      /\ \A j \in 1..m : evs[n + j] = later[j]
  <2>1. /\ IsList(evs) /\ Len(evs) = Len(ev) + Len(later)
        /\ \A i \in 1..Len(ev) : evs[i] = ev[i]
        /\ \A j \in 1..Len(later) : evs[Len(ev) + j] = later[j]
    <3>1. IsList(ev) /\ IsList(later) BY <1>4, <1>5
    <3> QED BY ONLY <3>1, ListConcat DEF evs
  <2>2. Len(later) = m BY DEF m
  <2>3. DOMAIN evs = 1..Len(evs) BY <2>1, ListDomain
  <2> QED BY <1>4, <2>1, <2>2, <2>3
<1>7. /\ IsList(x.notify) /\ Len(x.notify) = n + m + 1 /\ DOMAIN x.notify = 1..(n + m + 1)
      /\ x.notify[n + m + 1] = fee /\ \A i \in 1..(n + m) : x.notify[i] = evs[i]
  BY <1>1, <1>6, ListAppend, ListDomain
<1>8. ASSUME NEW i \in 1..n
      PROVE  /\ Readable(evs[i]) /\ MovedBy(k, xs[i].contract, xs[i]) \in Int
             /\ EventMoves(k, evs[i], Gas, Tokens) = MovedBy(k, xs[i].contract, xs[i])
  <2> DEFINE t == args[i]
             e == EventOf(code, t)
             xfer == xs[i]
             s == Shown(e)
  <2>1. evs[i] = e BY <1>4, <1>6
  <2>2. t[3] \in Nat /\ xfer.amount = t[3] /\ xfer.contract = code.contract
        /\ xfer.from = t[1] /\ xfer.to = t[2]
    BY <1>2
  <2>3. code.op = "SYSCALL" <=> isNative(code.contract) BY DEF Callable
  <2> HIDE DEF t, code, xfer
  <2>4. /\ Readable(e) /\ Decode(e, Gas).ok /\ Amount(e) = t[3]
        /\ e.from = t[1] /\ e.to = t[2] /\ e.contract = code.contract
    BY <2>2, <2>3, EventOfTransfer DEF code
  <2> HIDE DEF e
  <2>5. s.from = xfer.from /\ s.to = xfer.to /\ s.amount = xfer.amount
    BY <2>2, <2>4 DEF Shown
  <2>6. EventMoves(k, e, Gas, Tokens) = MovedBy(k, e.contract, s)
    BY <2>4 DEF EventMoves, code
  <2> HIDE DEF s
  <2>7. MovedBy(k, e.contract, s) = MovedBy(k, xfer.contract, xfer)
    BY <2>2, <2>4, <2>5 DEF MovedBy
  <2>8. MovedBy(k, xfer.contract, xfer) \in Int BY <2>2 DEF MovedBy
  <2> QED BY <2>1, <2>4, <2>6, <2>7, <2>8 DEF xfer
<1>9. /\ Readable(fee) /\ MovedBy(k, ONG, FeeOf(txn.payer)) \in Int
      /\ EventMoves(k, fee, Gas, Tokens) = MovedBy(k, ONG, FeeOf(txn.payer))
  <2> DEFINE f == FeeOf(txn.payer)
             s == Shown(fee)
  <2>1. /\ fee.form = "native4" /\ fee.contract = ONG /\ fee.name = "transfer"
        /\ fee.from = txn.payer /\ fee.to = govAddr /\ fee.amount = Gas /\ fee.value = 0
    BY DEF fee, Event
  <2>2. /\ f.amount = Gas * GWei /\ f.from = txn.payer /\ f.to = govAddr
        /\ Gas \in Int /\ GWei \in Nat \ {0}
    BY TransfersAssumption, ConstructionAssumption DEF FeeOf
  <2> HIDE DEF f
  <2>3. Gas * GWei + 0 = Gas * GWei /\ Gas * GWei \in Int BY <2>2
  <2>4. Readable(fee) BY <2>1, <2>2 DEF Readable
  <2>5. Decode(fee, Gas).ok BY <2>1 DEF Decode, DecodeNative, Transfer
  <2>6. Amount(fee) = Gas * GWei BY <2>1, <2>3 DEF Amount
  <2>7. s.from = f.from /\ s.to = f.to /\ s.amount = f.amount BY <2>1, <2>2, <2>6 DEF Shown
  <2>8. EventMoves(k, fee, Gas, Tokens) = MovedBy(k, ONG, s)
    BY <2>1, <2>5, TokensAssumption DEF EventMoves
  <2> HIDE DEF s
  <2>9. MovedBy(k, ONG, s) = MovedBy(k, ONG, f) BY <2>7 DEF MovedBy
  <2>10. MovedBy(k, ONG, f) \in Int BY <2>2, <2>3 DEF MovedBy
  <2> QED BY <2>4, <2>8, <2>9, <2>10 DEF f
<1>10. IsTxn(x)
  <2>1. ASSUME NEW i \in 1..(n + m + 1) PROVE Readable(x.notify[i])
    <3>1. CASE i \in 1..n BY <1>3, <1>5, <1>7, <1>8, <3>1
    <3>2. CASE i = n + m + 1 BY <1>7, <1>9, <3>2
    <3>3. CASE i \notin 1..n /\ i # n + m + 1
      <4>1. i - n \in 1..m /\ n + (i - n) = i BY <1>3, <1>5, <3>3
      <4>2. PICK j \in 1..m : n + j = i BY <4>1
      <4>3. i \in 1..(n + m) BY <1>3, <1>5, <3>3
      <4>4. x.notify[i] = later[j] BY <1>6, <1>7, <4>2, <4>3
      <4> QED BY <1>5, <4>4
    <3> QED BY <3>1, <3>2, <3>3
  <2> QED BY <1>7, <2>1 DEF IsTxn
<1>11. /\ DOMAIN v = 1..n /\ Len(v) = n
       /\ \A i \in 1..n : v[i] \in Int /\ vu[i] = v[i]
  <2>1. \A i \in 1..n : vu[i] = EventMoves(k, evs[i], Gas, Tokens) BY <1>3, <1>5, <1>6
  <2>2. DOMAIN v = 1..n /\ \A i \in 1..n : v[i] = MovedBy(k, xs[i].contract, xs[i]) BY <1>3
  <2>3. Len(v) = n BY <1>3, <2>2
  <2> HIDE DEF v, vu
  <2> QED BY <1>8, <2>1, <2>2, <2>3
<1>12. /\ DOMAIN u = 1..m /\ Len(u) = m
       /\ \A j \in 1..m : u[j] \in Int /\ vu[n + j] = u[j]
  <2>1. \A j \in 1..m : n + j \in 1..(n + m) BY <1>3, <1>5
  <2>2. \A j \in 1..m : vu[n + j] = EventMoves(k, later[j], Gas, Tokens) BY <1>6, <2>1
  <2>3. DOMAIN u = 1..m /\ \A j \in 1..m : u[j] = EventMoves(k, later[j], Gas, Tokens)
    BY <1>5
  <2>4. Len(u) = m BY <1>5, <2>3
  <2> HIDE DEF u, vu
  <2> QED BY <1>5, <2>2, <2>3, <2>4
<1>13. DOMAIN vu = 1..(n + m) /\ Len(vu) = n + m
  <2>1. n + m \in Nat BY <1>3, <1>5
  <2>2. DOMAIN vu = 1..(n + m) BY <1>6
  <2> QED BY <2>1, <2>2
<1>14. /\ DOMAIN w = 1..(n + m + 1) /\ Len(w) = n + m + 1
       /\ \A i \in 1..(n + m) : w[i] = vu[i]
       /\ w[n + m + 1] = MovedBy(k, ONG, FeeOf(txn.payer))
  <2>1. n + m + 1 \in 1..(n + m + 1) /\ n + m + 1 \in Nat BY <1>3, <1>5
  <2>2. \A i \in 1..(n + m) : i \in 1..(n + m + 1) BY <1>3, <1>5
  <2>3. DOMAIN w = 1..(n + m + 1)
        /\ \A i \in 1..(n + m + 1) : w[i] = EventMoves(k, x.notify[i], Gas, Tokens)
    BY <1>1, <1>7
  <2>4. \A i \in 1..(n + m) : vu[i] = EventMoves(k, evs[i], Gas, Tokens) BY <1>6
  <2>5. Len(w) = n + m + 1 BY <2>1, <2>3
  <2> HIDE DEF w, vu
  <2>6. w[n + m + 1] = MovedBy(k, ONG, FeeOf(txn.payer)) BY <1>7, <1>9, <2>1, <2>3
  <2>7. \A i \in 1..(n + m) : w[i] = vu[i] BY <1>7, <2>2, <2>3, <2>4
  <2> QED BY <2>3, <2>5, <2>6, <2>7
<1> HIDE DEF v, u, vu, w
<1>15. SumOf(v) \in Int /\ SumOf(u) \in Int /\ SumOf(vu) = SumOf(v) + SumOf(u)
  <2>1. Joined(vu, v, n, u, m) BY <1>11, <1>12, <1>13 DEF Joined
  <2> QED BY <1>3, <1>5, <2>1, SumJoins
<1>16. SumOf(w) = SumOf(vu) + w[n + m + 1]
  <2>1. PICK q \in Nat : q = n + m BY <1>3, <1>5
  <2>2. \A i \in 1..q : vu[i] \in Int
    <3>1. ASSUME NEW i \in 1..q PROVE vu[i] \in Int
      <4>1. CASE i \in 1..n BY <1>11, <4>1
      <4>2. CASE i \notin 1..n
        <5>1. i - n \in 1..m /\ n + (i - n) = i BY <1>3, <1>5, <2>1, <4>2
        <5>2. PICK j \in 1..m : n + j = i BY <5>1
        <5> QED BY <1>12, <5>2
      <4> QED BY <4>1, <4>2
    <3> QED BY <3>1
  <2>3. w[q + 1] \in Int BY <1>9, <1>14, <2>1
  <2>4. SumOf(w) = SumOf(vu) + w[q + 1]
    BY <1>13, <1>14, <2>1, <2>2, <2>3, SumGrows
  <2> QED BY <2>1, <2>4
<1> QED BY <1>0, <1>1, <1>9, <1>10, <1>14, <1>15, <1>16 DEF x, xs, y

\* The operations of a transaction that has not failed, alone in its block, move
\* what its events do.
LEMMA LoneAnswer ==
  ASSUME NEW y, IsTxn(y), ~y.failed, NEW k
  PROVE  LET ops == Operations(IndexBlock(<<y>>, Tokens).txns[1]) IN
         IsOps(ops) /\ OpsMoved(k, ops) = EventsMove(k, y, Tokens)
<1>1. <<y>> \in Seq({y}) /\ Len(<<y>>) = 1 /\ <<y>>[1] = y /\ 1 \in 1..Len(<<y>>) OBVIOUS
<1>2. IsList(<<y>>) BY <1>1 DEF IsList
<1>3. \A i \in 1..Len(<<y>>) : IsTxn(<<y>>[i]) BY <1>1
<1>4. IsBlock(<<y>>) BY <1>2, <1>3 DEF IsBlock
<1> QED BY <1>1, <1>4, AnsweredIsMoved

\* A transaction that may be submitted, if it can be read, can be executed.
LEMMA SentCallable ==
  ASSUME AllWritten, NEW txn \in Sent, ParsePayload(txn.code).ok
  PROVE  Callable(txn.code)
<1>1. CASE \E f \in ForeignTxns : txn = f.txn BY <1>1, ForeignAssumption
<1>2. ASSUME NEW u \in unsigned, txn = u.txn PROVE Callable(txn.code)
  <2> DEFINE asked == TransferOf(u.ops)
             t == <<asked.from, asked.to, asked.amount>>
             code == txn.code
  <2>1. code = InvokeCode(asked) /\ asked.amount \in Nat BY <1>2 DEF AllWritten, Written
  <2>2. /\ Arguments(code) = <<t>> /\ code.contract = asked.contract
        /\ code.op = IF isNative(asked.contract) THEN "SYSCALL"
                     ELSE IF asked.contract \in Wasm THEN "WASM" ELSE "APPCALL"
        /\ code.rest.notify = <<>>
    BY <2>1, Wrote DEF Nothing
  <2>3. t[3] \in Nat BY <2>1
  <2>4. code.op = "SYSCALL" <=> isNative(code.contract) BY <2>2
  <2> HIDE DEF t, code
  <2>5. <<t>> \in Seq(ToSet(<<t>>))
    <3>1. t \in ToSet(<<t>>) BY DEF ToSet
    <3> QED BY <3>1
  <2>6. \A i \in DOMAIN <<t>> : <<t>>[i][3] \in Nat BY <2>3
  <2>7. <<>> \in Seq(ToSet(<<>>)) /\ DOMAIN <<>> = {} BY EmptyList DEF IsList
  <2> QED BY <2>2, <2>4, <2>5, <2>6, <2>7 DEF Callable, code
<1> QED BY <1>1, <1>2 DEF Sent

\* What is told of a transaction in the pool is exactly what its first call
\* moves: /block answers it once the transaction is executed, with the fee and
\* what the rest of the script moved and nothing else, whichever method is
\* called and wherever its block comes, but for the native methods that count
\* GWei (chain/payload.go 44-238, store.go 881-1122).
THEOREM MempoolToldBlock == Spec => []MempoolTellsBlock
<1>1. AllWritten /\ PoolInv => MempoolTellsBlock
  <2> SUFFICES ASSUME AllWritten, PoolInv, NEW x \in Succeeded,
                      ~InGWei(chain[x[1]][x[2]].txn.code)
               PROVE  ToldAlike(x[1], x[2])
    BY DEF MempoolTellsBlock
  <2> DEFINE b == x[1]
             t == chain[b][1].txn
             ev == [j \in DOMAIN chain[b] |-> Executed(chain[b][j].txn, chain[b][j].failed, Gas)]
             y == Executed(t, FALSE, Gas)
  <2>1. b \in 2..Len(chain) /\ x[2] = 1 /\ 1 \in DOMAIN chain[b] /\ ~chain[b][1].failed
    BY DEF Succeeded
  <2>2. PICK r : chain[b] = <<r>> /\ r.txn \in Sent /\ r.failed \in BOOLEAN
    <3>1. OneEach(chain[b]) BY <2>1 DEF PoolInv
    <3>2. chain[b] # <<>> BY <2>1
    <3> QED BY <3>1, <3>2 DEF OneEach
  <2>3. t \in Sent /\ ~InGWei(t.code) BY <2>1, <2>2
  <2>4. ev = <<y>>
    <3>1. chain[b][1] = r /\ DOMAIN chain[b] = {1} BY <2>2
    <3>2. r.failed = FALSE BY <2>1, <2>2, <3>1
    <3>3. Executed(r.txn, r.failed, Gas) = y BY <3>1, <3>2
    <3>4. ev = [j \in {1} |-> y] BY <3>1, <3>3
    <3> HIDE DEF y, ev
    <3> QED BY <3>4
  <2>5. SUFFICES ASSUME parsePayload(t.code).ok, ~offline, NEW k
        PROVE  Delta(Operations(IndexBlock(<<y>>, Tokens).txns[1]), k)
                 = Delta(parsePayload(t.code).ops, k) + Delta(RestOps(t), k)
                   + Delta(FeeOps(t.payer), k)
    <3>1. BlockOps(b, 1) = Operations(IndexBlock(<<y>>, Tokens).txns[1])
      BY <2>4 DEF BlockOps
    <3> QED BY <2>1, <2>5, <3>1 DEF ToldAlike, MempoolTransaction, Failed
  <2>6. /\ ParsePayload(t.code).ok /\ t.code.contract \in Tokens
        /\ parsePayload(t.code).ops = Operations(Moves(t.code))
    BY <2>5, ToldOps
  <2>7. Callable(t.code) BY <2>3, <2>6, SentCallable
  <2> HIDE DEF t
  <2>8. /\ IsTxn(y) /\ ~y.failed /\ XMoved(k, Moves(t.code)) \in Int
        /\ EventsMove(k, y, Tokens)
             = XMoved(k, Moves(t.code)) + EventsMove(k, AfterFirstCall(t), Tokens)
               + MovedBy(k, ONG, FeeOf(t.payer))
    BY <2>3, <2>6, <2>7, ExecutedMoves
  <2> HIDE DEF y
  <2>9. /\ IsOps(Operations(IndexBlock(<<y>>, Tokens).txns[1]))
        /\ OpsMoved(k, Operations(IndexBlock(<<y>>, Tokens).txns[1])) = EventsMove(k, y, Tokens)
    BY <2>8, LoneAnswer
  <2>10. /\ IsOps(Operations(Moves(t.code)))
         /\ OpsMoved(k, Operations(Moves(t.code))) = XMoved(k, Moves(t.code))
    <3>1. IsList(Moves(t.code)) /\ \A j \in 1..Len(Moves(t.code)) : Moves(t.code)[j].amount \in Int
      BY <2>7, MovesAreList
    <3> QED BY <3>1, AnswersAddUp
  <2>11. /\ IsOps(FeeOps(t.payer))
         /\ OpsMoved(k, FeeOps(t.payer)) = MovedBy(k, ONG, FeeOf(t.payer))
    BY FeeMoves
  <2>12. IsOps(RestOps(t)) /\ OpsMoved(k, RestOps(t)) = EventsMove(k, AfterFirstCall(t), Tokens)
    <3>1. IsTxn(AfterFirstCall(t)) /\ ~AfterFirstCall(t).failed BY <2>7, RestMoves
    <3> QED BY <3>1, LoneAnswer DEF RestOps
  <2> QED BY <2>6, <2>8, <2>9, <2>10, <2>11, <2>12, DeltaIsMoved
<1> QED BY <1>1, InitHandedOut, InitPoolInv, StepWritten, StepPoolInv, InductiveConstruction,
           PTL DEF Spec, ConstructionInv

----------------------------------------------------------------------------
(* What /construction/parse reads back.                                    *)

\* What is handed out comes with operations of a request, which validateOps has
\* let through.
AllAsked == \A u \in unsigned : \E r \in Requests : u.ops = r.ops /\ validateOps(r.ops)

\* Every step hands out only transactions for operations it has looked at.
LEMMA StepAsked == AllAsked /\ [Next]_vars => AllAsked'
<1> SUFFICES ASSUME AllAsked, [Next]_vars PROVE AllAsked' OBVIOUS
<1>1. ASSUME NEW o \in Held, NEW r \in Requests, ConstructionPayloads(o, r.ops)
      PROVE  AllAsked'
  <2> DEFINE u == [txn |-> constructTransfer(o), ops |-> r.ops,
                   signers |-> Signers(constructTransfer(o), TransferOf(r.ops))]
  <2>1. unsigned' = unsigned \union {u} /\ validateOps(r.ops)
    BY <1>1 DEF ConstructionPayloads
  <2>2. u.ops = r.ops OBVIOUS
  <2> HIDE DEF u
  <2> QED BY <2>1, <2>2 DEF AllAsked
<1>2. CASE unsigned' = unsigned BY <1>2 DEF AllAsked
<1>3. unsigned' = unsigned \/ \E o \in Held, r \in Requests : ConstructionPayloads(o, r.ops)
  BY DEF Next, vars, client, node, Metadata, ConstructionPreprocess, MetadataBegins,
     HeaderSkipped, HeaderFails, PriceFound, BlockFails, WindowEnds, TryNonce, GivenNonce,
     MetadataFails, Refuse, Answer, ConstructionCombine, ConstructionSubmit, ForeignSubmit,
     AppendTxToPool, NewBlock, IndexNext
<1> QED BY <1>1, <1>2, <1>3

\* The operations of a single transfer from somebody: the debit, and the credit
\* unless nobody receives it.
LEMMA OneTransfer ==
  ASSUME NEW x, x.from # nullAddr
  PROVE  LET debit == Operation(x, x.from, -x.amount, 0, {})
             credit == Operation(x, x.to, x.amount, 1, {0})
         IN  Operations(<<x>>) = IF x.to = nullAddr THEN <<debit>> ELSE <<debit, credit>>
<1> DEFINE debit == Operation(x, x.from, -x.amount, 0, {})
           credit == Operation(x, x.to, x.amount, 1, {0})
<1>1. DOMAIN <<x>> = 1..1 /\ Len(<<x>>) = 1 /\ <<x>>[1] = x /\ 1 \in Nat OBVIOUS
<1>2. PICK f : /\ f[0] = <<>> /\ (\A k \in 1..1 : f[k] = AppendOperations(f[k - 1], <<x>>[k]))
               /\ Operations(<<x>>) = f[1]
  BY <1>1, OperationsTrace
<1>3. Operations(<<x>>) = AppendOperations(<<>>, x)
  <2>1. 1 \in 1..1 /\ 1 - 1 = 0 OBVIOUS
  <2> QED BY <1>1, <1>2, <2>1
<1>4. Append(<<>>, debit) = <<debit>> /\ Len(<<debit>>) = 1
  <2> HIDE DEF debit
  <2> QED OBVIOUS
<1>5. Append(<<debit>>, credit) = <<debit, credit>>
  <2> HIDE DEF debit, credit
  <2> DEFINE S == {debit, credit}
             two == Append(<<debit>>, credit)
  <2>1. <<debit>> \in Seq(S) /\ credit \in S /\ Len(<<debit>>) = 1 OBVIOUS
  <2>2. two \in Seq(S) /\ Len(two) = 2 /\ two[2] = credit /\ two[1] = <<debit>>[1]
    BY <2>1, AppendProperties
  <2> HIDE DEF S, two
  <2>3. two = <<debit, credit>> BY <2>2
  <2> QED BY <2>3 DEF two
<1>6. AppendOperations(<<>>, x)
        = IF x.to # nullAddr THEN Append(<<debit>>, credit) ELSE <<debit>>
  <2>1. IsList(<<>>) /\ Len(<<>>) = 0 BY EmptyList
  <2>2. 1 - 1 = 0 OBVIOUS
  <2> DEFINE d == Operation(x, x.from, -x.amount, Len(<<>>), {})
             some == Append(<<>>, d)
  <2>3. d = debit BY <2>1
  <2>4. some = <<debit>> /\ Len(some) = 1 BY <1>4, <2>3
  <2>5. AppendOperations(<<>>, x)
          = IF x.to # nullAddr
            THEN Append(some, Operation(x, x.to, x.amount, Len(some), {Len(some) - 1}))
            ELSE some
    BY <2>1, AnswerAppends
  <2> HIDE DEF debit, some
  <2> QED BY <2>2, <2>4, <2>5
<1> QED BY <1>3, <1>5, <1>6

\* Two operations that validateOps lets through, as a debit and a credit.
LEMMA ValidPair ==
  ASSUME NEW r \in Requests, validateOps(r.ops)
  PROVE  LET asked == TransferOf(r.ops)
             currency == [contract |-> asked.contract, decimals |-> Decimals[asked.contract]]
             sub == IF isNative(asked.contract) THEN nil ELSE asked.contract
             debit == <<asked.from, sub, -asked.amount, currency, "transfer">>
             credit == <<asked.to, sub, asked.amount, currency, "transfer">>
         IN  /\ {Content(r.ops[i]) : i \in 1..2} = {debit, credit}
             /\ asked.from \notin {nil, Junk} /\ asked.to \notin {nil, Junk}
             /\ -asked.amount # nil /\ asked.amount # nil
<1> DEFINE a == r.ops[1]
           b == r.ops[2]
           asked == TransferOf(r.ops)
           c == a.currency.contract
           currency == [contract |-> c, decimals |-> Decimals[c]]
           sub == IF isNative(c) THEN nil ELSE c
<1>1. /\ Len(r.ops) = 2 /\ ValidOp(a) /\ ValidOp(b) /\ a.value + b.value = 0
      /\ b.currency.contract = c
  BY DEF validateOps
<1>2. \A op \in {a, b} :
        /\ op.value \in Int /\ op.value # 0 /\ op.account \notin {nil, Junk}
        /\ op.currency = [contract |-> op.currency.contract,
                           decimals |-> op.currency.decimals]
        /\ op.currency.decimals = Decimals[op.currency.contract]
        /\ op.sub = IF isNative(op.currency.contract) THEN nil ELSE op.currency.contract
        /\ op.type = "transfer"
  <2>1. 1 \in 1..Len(r.ops) /\ 2 \in 1..Len(r.ops) BY <1>1
  <2>2. \A i \in 1..Len(r.ops) :
          LET op == r.ops[i] IN
          /\ op.value \in Int \union {nil} /\ op.account # Junk
          /\ op.currency # nil => op.currency = [contract |-> op.currency.contract,
                                               decimals |-> op.currency.decimals]
    BY RequestAssumption
  <2> SUFFICES ASSUME NEW op, op = a \/ op = b
               PROVE  /\ op.value \in Int /\ op.value # 0 /\ op.account \notin {nil, Junk}
                      /\ op.currency = [contract |-> op.currency.contract,
                                         decimals |-> op.currency.decimals]
                      /\ op.currency.decimals = Decimals[op.currency.contract]
                      /\ op.sub = IF isNative(op.currency.contract) THEN nil
                                  ELSE op.currency.contract
                      /\ op.type = "transfer"
    OBVIOUS
  <2>3. ValidOp(op) BY <1>1
  <2>4. /\ op.value \in Int \union {nil} /\ op.account # Junk
        /\ op.currency # nil => op.currency = [contract |-> op.currency.contract,
                                               decimals |-> op.currency.decimals]
    BY <2>1, <2>2
  <2> QED BY <2>3, <2>4 DEF ValidOp, validateCurrency
<1>3. a.currency = currency /\ b.currency = currency /\ a.sub = sub /\ b.sub = sub
  BY <1>1, <1>2
<1>4. /\ Content(a) = <<a.account, sub, a.value, currency, "transfer">>
      /\ Content(b) = <<b.account, sub, b.value, currency, "transfer">>
  BY <1>2, <1>3 DEF Content
<1>5. {Content(r.ops[i]) : i \in 1..2} = {Content(a), Content(b)}
  <2>1. 1..2 = {1, 2} OBVIOUS
  <2> QED BY <2>1
<1>6. nil \notin Int BY RequestAssumption
<1>7. a.value \in Int /\ b.value \in Int BY <1>2
<1>8. CASE a.value < 0
  <2>1. /\ asked.from = a.account /\ asked.to = b.account
        /\ asked.amount = b.value /\ asked.contract = c
    BY <1>1, <1>8 DEF TransferOf
  <2>2. -asked.amount = a.value BY <1>1, <1>7, <2>1
  <2>3. /\ {Content(r.ops[i]) : i \in 1..2}
             = {<<asked.from, sub, -asked.amount, currency, "transfer">>,
                <<asked.to, sub, asked.amount, currency, "transfer">>}
        /\ asked.from \notin {nil, Junk} /\ asked.to \notin {nil, Junk}
        /\ -asked.amount # nil /\ asked.amount # nil
    <3> HIDE DEF asked, a, b, c, currency, sub
    <3> QED BY <1>2, <1>4, <1>5, <1>6, <1>7, <2>1, <2>2
  <2>4. asked.contract = c BY <2>1
  <2> HIDE DEF asked, c
  <2> QED BY ONLY <2>3, <2>4 DEF asked, currency, sub
<1>9. CASE ~(a.value < 0)
  <2>1. /\ asked.from = b.account /\ asked.to = a.account
        /\ asked.amount = a.value /\ asked.contract = c
    BY <1>1, <1>9 DEF TransferOf
  <2>2. -asked.amount = b.value BY <1>1, <1>7, <2>1
  <2>3. /\ {Content(r.ops[i]) : i \in 1..2}
             = {<<asked.from, sub, -asked.amount, currency, "transfer">>,
                <<asked.to, sub, asked.amount, currency, "transfer">>}
        /\ asked.from \notin {nil, Junk} /\ asked.to \notin {nil, Junk}
        /\ -asked.amount # nil /\ asked.amount # nil
    <3> HIDE DEF asked, a, b, c, currency, sub
    <3> QED BY <1>2, <1>4, <1>5, <1>6, <1>7, <2>1, <2>2
  <2>4. asked.contract = c BY <2>1
  <2> HIDE DEF asked, c
  <2> QED BY ONLY <2>3, <2>4 DEF asked, currency, sub
<1> QED BY <1>8, <1>9

\* Of the codes written for a transfer, those of WASM tokens and no others
\* cannot be read; what is read is that transfer.
LEMMA WrittenRead ==
  ASSUME NEW xfer, xfer.amount \in Nat, xfer.from # Junk, xfer.to # Junk,
         xfer.contract \in Tokens
  PROVE  LET code == InvokeCode(xfer) IN
         /\ parsePayload(code).ok <=> ~(xfer.contract \in Wasm /\ ~isNative(xfer.contract))
         /\ Moves(code) = <<[amount |-> xfer.amount, contract |-> xfer.contract,
                             from |-> xfer.from, to |-> xfer.to, isGas |-> FALSE]>>
<1> DEFINE t == <<xfer.from, xfer.to, xfer.amount>>
           code == InvokeCode(xfer)
           x == [amount |-> xfer.amount, contract |-> xfer.contract,
                 from |-> xfer.from, to |-> xfer.to, isGas |-> FALSE]
<1>1. Arguments(code) = <<t>> /\ code.contract = xfer.contract BY Wrote
<1>2. Moves(code) = <<x>>
  <2> DEFINE read(y) == [amount |-> y[3], contract |-> xfer.contract,
                         from |-> y[1], to |-> y[2], isGas |-> FALSE]
  <2>1. read(t) = x OBVIOUS
  <2>2. Moves(code) = [i \in DOMAIN <<t>> |-> read(<<t>>[i])] BY <1>1 DEF Moves
  <2> HIDE DEF t, x, code, read
  <2>3. [i \in DOMAIN <<t>> |-> read(<<t>>[i])] = <<read(t)>> OBVIOUS
  <2> QED BY <2>1, <2>2, <2>3
<1>3. Fields(<<t>>, 3)
  <2>1. DOMAIN <<t>> = {1} /\ <<t>>[1] = t /\ Len(t) = 3 /\ DOMAIN t = {1, 2, 3} OBVIOUS
  <2>2. Junk # xfer.amount BY RequestAssumption
  <2>3. \A i \in {1, 2, 3} : t[i] # Junk BY <2>2
  <2> HIDE DEF t
  <2> QED BY <2>1, <2>3 DEF Fields, ToSet
<1>4. parseTransfers(<<t>>).ok
  <2> HIDE DEF t
  <2> QED BY <1>3 DEF parseTransfers
<1>5. parsePayload(code).ok <=> ParsePayload(code).ok
  BY <1>1 DEF parsePayload, Failed
<1>6. CASE isNative(xfer.contract)
  <2>1. code.op = "SYSCALL" /\ code.method = "transferV2" /\ code.params = <<t>>
    BY <1>6 DEF InvokeCode, Code
  <2> HIDE DEF code, t
  <2>2. ParsePayload(code) = parseTransfers(<<t>>) BY <2>1 DEF ParsePayload, Multi
  <2> QED BY <1>2, <1>4, <1>5, <1>6, <2>2 DEF code, x
<1>7. CASE ~isNative(xfer.contract) /\ xfer.contract \in Wasm
  <2>1. code.op = "WASM" BY <1>7 DEF InvokeCode, Code
  <2> HIDE DEF code
  <2>2. ~ParsePayload(code).ok BY <2>1 DEF ParsePayload, Multi, From, Failed
  <2> QED BY <1>2, <1>5, <1>7, <2>2 DEF code
<1>8. CASE ~isNative(xfer.contract) /\ xfer.contract \notin Wasm
  <2>1. code.op = "APPCALL" /\ code.method = "transfer" /\ code.params = t
    BY <1>8 DEF InvokeCode, Code
  <2> HIDE DEF code, t
  <2>2. ParsePayload(code) = parseTransfers(<<t>>) BY <2>1 DEF ParsePayload, Multi, From
  <2> QED BY <1>2, <1>4, <1>5, <1>8, <2>2 DEF code, x
<1> QED BY <1>6, <1>7, <1>8

\* The two operations of a transfer, put as a request puts them, would be
\* accepted.
LEMMA AnswerIsValid ==
  ASSUME NEW x, x.from \notin {nil, nullAddr}, x.to \notin {nil, nullAddr},
         x.contract \in Tokens, ~x.isGas, x.amount \in Nat \ {0}, nil \notin Int,
         [contract |-> x.contract, decimals |-> Decimals[x.contract]] # nil
  PROVE  LET debit == Operation(x, x.from, -x.amount, 0, {})
             credit == Operation(x, x.to, x.amount, 1, {0})
             currency == [contract |-> x.contract, decimals |-> Decimals[x.contract]]
             sub == IF isNative(x.contract) THEN nil ELSE x.contract
         IN  /\ validateOps(<<AsAsked(debit), AsAsked(credit)>>)
             /\ Content(AsAsked(debit)) = <<x.from, sub, -x.amount, currency, "transfer">>
             /\ Content(AsAsked(credit)) = <<x.to, sub, x.amount, currency, "transfer">>
<1> DEFINE currency == [contract |-> x.contract, decimals |-> Decimals[x.contract]]
           sub == IF isNative(x.contract) THEN nil ELSE x.contract
           a == AsAsked(Operation(x, x.from, -x.amount, 0, {}))
           b == AsAsked(Operation(x, x.to, x.amount, 1, {0}))
<1>1. OpType(x) = "transfer" BY DEF OpType
<1>2. /\ a.account = x.from /\ a.sub = sub /\ a.value = -x.amount /\ a.currency = currency
      /\ a.index = 0 /\ a.related = <<>> /\ a.type = "transfer"
  BY <1>1, SetToSeqOne DEF AsAsked, Operation
<1>3. /\ b.account = x.to /\ b.sub = sub /\ b.value = x.amount /\ b.currency = currency
      /\ b.index = 1 /\ b.related = <<0>> /\ b.type = "transfer"
  BY <1>1, SetToSeqOne DEF AsAsked, Operation
<1>4. PICK n \in Nat \ {0} : n = x.amount OBVIOUS
<1>5. a.value < 0 /\ a.value \in Int /\ b.value \in Int /\ b.value # 0 /\ a.value + b.value = 0
  BY <1>2, <1>3, <1>4
<1>6. currency.contract = x.contract /\ currency.decimals = Decimals[x.contract] OBVIOUS
<1> HIDE DEF a, b, sub, currency
<1>7. currency # nil BY DEF currency
<1>8. validateCurrency(currency) BY <1>6, <1>7 DEF validateCurrency
<1>9. ValidOp(a) /\ ValidOp(b)
  <2>1. 0 # nil /\ 1 # nil OBVIOUS
  <2>2. a.value # nil /\ b.value # nil /\ a.value # 0 BY <1>5
  <2> QED BY <1>2, <1>3, <1>5, <1>6, <1>8, <2>1, <2>2 DEF ValidOp, sub
<1>10. validateRelation(b, a)
  BY <1>2, <1>3 DEF validateRelation
<1>11. LET ops == <<a, b>> IN validateOps(ops)
  <2> DEFINE ops == <<a, b>>
  <2>1. Len(ops) = 2 /\ ops[1] = a /\ ops[2] = b OBVIOUS
  <2> HIDE DEF ops
  <2>2. TransferOf(ops).from # nullAddr BY <1>2, <1>5, <2>1 DEF TransferOf
  <2>3. validateOps(ops)
    BY <1>2, <1>3, <1>5, <1>9, <1>10, <2>1, <2>2 DEF validateOps
  <2> QED BY <2>3 DEF ops
<1>12. /\ Content(a) = <<x.from, sub, -x.amount, currency, "transfer">>
       /\ Content(b) = <<x.to, sub, x.amount, currency, "transfer">>
  BY <1>2, <1>3 DEF Content
<1> QED BY <1>11, <1>12 DEF a, b, sub, currency

\* /construction/parse reads back, of every transaction handed out to be signed,
\* the two operations asked for, and they would be accepted again; those to the
\* null address and those of WASM tokens it refuses
\* (construction_service.go 269-292).
THEOREM ParsesWhatIsAsked == Spec => []ParsedIsAsked
<1>1. AllWritten /\ AllAsked => ParsedIsAsked
  <2> SUFFICES ASSUME AllWritten, AllAsked, NEW u \in unsigned
               PROVE  LET asked == TransferOf(u.ops)
                          p == ConstructionParse(u.txn)
                          ops == [i \in DOMAIN p.ops |-> AsAsked(p.ops[i])]
                          unread == asked.contract \in Wasm /\ ~isNative(asked.contract)
                      IN  IF asked.to = nullAddr \/ unread THEN ~p.ok
                          ELSE /\ p.ok
                               /\ validateOps(ops)
                               /\ {Content(ops[i]) : i \in 1..2}
                                    = {Content(u.ops[i]) : i \in 1..2}
    BY DEF ParsedIsAsked
  <2>1. PICK r \in Requests : u.ops = r.ops /\ validateOps(r.ops) BY DEF AllAsked
  <2> DEFINE asked == TransferOf(r.ops)
             c == asked.contract
             unread == c \in Wasm /\ ~isNative(c)
             code == u.txn.code
             p == parsePayload(code)
             q == ConstructionParse(u.txn)
             x == [amount |-> asked.amount, contract |-> c, from |-> asked.from,
                   to |-> asked.to, isGas |-> FALSE]
             debit == Operation(x, x.from, -x.amount, 0, {})
             credit == Operation(x, x.to, x.amount, 1, {0})
             currency == [contract |-> c, decimals |-> Decimals[c]]
             sub == IF isNative(c) THEN nil ELSE c
  <2>2. code = InvokeCode(asked) BY <2>1 DEF AllWritten, Written
  <2>3. asked.amount \in Nat \ {0} /\ c \in Tokens /\ asked.from # nullAddr
    BY <2>1, ValidAmount
  <2>4. /\ {Content(r.ops[i]) : i \in 1..2}
             = {<<asked.from, sub, -asked.amount, currency, "transfer">>,
                <<asked.to, sub, asked.amount, currency, "transfer">>}
        /\ asked.from \notin {nil, Junk} /\ asked.to \notin {nil, Junk}
    BY <2>1, ValidPair
  <2>5. currency # nil
    <3>1. 1 \in 1..Len(r.ops) /\ 2 \in 1..Len(r.ops) BY <2>1 DEF validateOps
    <3>2. ASSUME NEW op \in {r.ops[1], r.ops[2]}
          PROVE  /\ op.currency # nil /\ op.currency.decimals = Decimals[op.currency.contract]
                 /\ op.currency = [contract |-> op.currency.contract,
                                   decimals |-> op.currency.decimals]
      BY <2>1, <3>1, RequestAssumption DEF validateOps, ValidOp, validateCurrency
    <3>3. c = r.ops[1].currency.contract \/ c = r.ops[2].currency.contract
      BY DEF TransferOf
    <3> QED BY <3>2, <3>3
  <2> HIDE DEF currency
  <2>6. p.ok <=> ~unread
    BY <2>2, <2>3, <2>4, WrittenRead
  <2>7. Moves(code) = <<x>>
    BY <2>2, <2>3, <2>4, WrittenRead
  <2>8. p.ok => p.ops = IF x.to = nullAddr THEN <<debit>> ELSE <<debit, credit>>
    <3>1. x.from # nullAddr BY <2>3
    <3> HIDE DEF x
    <3> QED BY <2>7, <3>1, ToldOps, OneTransfer
  <2>9. CASE asked.to = nullAddr \/ unread
    <3>1. p.ok => Len(p.ops) = 1
      <4>1. p.ok => x.to = nullAddr BY <2>6, <2>9
      <4> HIDE DEF x, debit, credit, p
      <4> QED BY <2>8, <4>1
    <3>2. ~q.ok BY <3>1 DEF ConstructionParse, Failed
    <3> QED BY <2>1, <2>9, <3>2
  <2>10. CASE asked.to # nullAddr /\ ~unread
    <3>1. p.ok /\ p.ops = <<debit, credit>> BY <2>6, <2>8, <2>10
    <3>2. debit.value < 0
      <4>1. PICK n \in Nat \ {0} : n = asked.amount BY <2>3
      <4> QED BY <4>1 DEF Operation
    <3>3. q = p
      <4> HIDE DEF debit, credit, p
      <4>1. Len(p.ops) = 2 /\ p.ops[1] = debit BY <3>1
      <4> QED BY <3>1, <3>2, <4>1 DEF ConstructionParse, p
    <3> DEFINE ops == [i \in DOMAIN q.ops |-> AsAsked(q.ops[i])]
    <3>4. ops = <<AsAsked(debit), AsAsked(credit)>>
      <4> HIDE DEF debit, credit, p, q
      <4>1. [i \in DOMAIN <<debit, credit>> |-> AsAsked(<<debit, credit>>[i])]
              = <<AsAsked(debit), AsAsked(credit)>>
        OBVIOUS
      <4> QED BY <3>1, <3>3, <4>1
    <3>5. /\ validateOps(ops)
          /\ Content(AsAsked(debit)) = <<asked.from, sub, -asked.amount, currency, "transfer">>
          /\ Content(AsAsked(credit)) = <<asked.to, sub, asked.amount, currency, "transfer">>
      <4>1. /\ x.from \notin {nil, nullAddr} /\ x.to \notin {nil, nullAddr}
            /\ x.contract = c /\ ~x.isGas /\ x.amount \in Nat \ {0} /\ x.from = asked.from
            /\ x.to = asked.to /\ x.amount = asked.amount /\ c \in Tokens
        BY <2>3, <2>4, <2>10
      <4>2. nil \notin Int BY RequestAssumption
      <4> HIDE DEF x, asked, ops, c
      <4>3. /\ validateOps(<<AsAsked(debit), AsAsked(credit)>>)
            /\ Content(AsAsked(debit)) = <<x.from, sub, -x.amount, currency, "transfer">>
            /\ Content(AsAsked(credit)) = <<x.to, sub, x.amount, currency, "transfer">>
        BY <2>5, <4>1, <4>2, AnswerIsValid DEF currency
      <4> QED BY <3>4, <4>1, <4>3
    <3>6. {Content(ops[i]) : i \in 1..2} = {Content(AsAsked(debit)), Content(AsAsked(credit))}
      <4>1. 1..2 = {1, 2} OBVIOUS
      <4> HIDE DEF ops, debit, credit
      <4>2. ops[1] = AsAsked(debit) /\ ops[2] = AsAsked(credit) BY <3>4
      <4> QED BY <4>1, <4>2
    <3>7. {Content(ops[i]) : i \in 1..2} = {Content(r.ops[i]) : i \in 1..2}
      <4> HIDE DEF ops, debit, credit, sub, asked
      <4> QED BY <2>4, <3>5, <3>6
    <3> HIDE DEF ops
    <3> QED BY <2>1, <2>10, <3>1, <3>3, <3>5, <3>7 DEF ops
  <2> QED BY <2>9, <2>10
<1>2. Init => AllAsked BY DEF Init, AllAsked
<1> QED BY <1>1, <1>2, InitHandedOut, StepWritten, StepAsked, PTL DEF Spec
=============================================================================
