--------------------------- MODULE ShutdownProofs ---------------------------
(***************************************************************************)
(* The types and the safety properties of Shutdown, for every set of modes *)
(* and faults, with or without signals.                                    *)
(*                                                                         *)
(* The registry is a function of how far main and the server have come; a  *)
(* goroutine that runs a copy of it has one of a few lists left to run.    *)
(* Two things pass through these lists.  The value the indexer sends is in *)
(* the channel, in the hands of one goroutine about to close the store, or *)
(* spent: hence one Close, after the indexer has returned.  And whoever    *)
(* has the server's handler behind it leaves a server that takes no more   *)
(* requests, and has answered those it had or has given up on them.        *)
(*                                                                         *)
(* At the end: the two kinds of exit that liveness has to except are no    *)
(* more than those that never end.                                         *)
(***************************************************************************)
EXTENDS Shutdown, SequenceTheorems, TLAPS

\* The registry, by mode and by what has been set.
Cancel4 == <<"server", "cancel", "wait", "ledger">>
Cancel3 == <<"cancel", "wait", "ledger">>
Wait2 == <<"wait", "ledger">>
Ledger1 == <<"ledger">>
Server2 == <<"server", "wait">>
Wait1 == <<"wait">>

Registries == IF mode = "online" THEN {<<>>, Ledger1, Wait2, Cancel3, Cancel4}
              ELSE {<<>>, Wait1, Server2}

\* What is left once the server's handler has returned, and what else.
Past == {<<>>, Ledger1, Wait2, Cancel3, Wait1,
         <<"close">>, <<"close", "ledger">>}
Before == {Cancel4, Server2, <<"drain", "wait">>,
           <<"drain", "cancel", "wait", "ledger">>, Idle}
Lists == Past \union Before

Closing == {<<"close">>, <<"close", "ledger">>}

\* How far main is, what it has set and what it has started.
Progress ==
  /\ main \in {"ledger", "node"} => mode = "online"
  /\ main \in {"spawn", "cancel"} => mode = "online"
  /\ main = "ledger" => registry = <<>>
  /\ main \in {"node", "store", "wait"} =>
       registry = IF mode = "online" THEN Ledger1 ELSE <<>>
  /\ main \in {"spawn", "cancel"} => registry = Wait2
  /\ main \in {"router", "listen"} \/ server = "spawned" =>
       registry = IF mode = "online" THEN Cancel3 ELSE Wait1
  /\ server \notin {"none", "spawned"} =>
       registry = IF mode = "online" THEN Cancel4 ELSE Server2
  /\ main # "idle" => server = "none"
  /\ main \in {"ledger", "node", "store", "wait", "spawn"} => indexer = "none"

\* The one value of done.
Token ==
  /\ closes \in Nat
  /\ mode = "online" =>
       /\ done => indexer = "returned" /\ closes = 0
       /\ closes > 0 => indexer = "returned" /\ ~done /\ closes = 1
       /\ \A r \in Runners : todo[r] \in Closing =>
            /\ indexer = "returned" /\ ~done /\ closes = 0
            /\ \A q \in Runners : todo[q] \in Closing => q = r

\* What was set when the exit began is still set.
Beginning ==
  /\ first \in Registries
  /\ ~exiting => /\ \A r \in Runners : todo[r] = Idle
                 /\ ledger # "closed" /\ closes = 0
  /\ exiting => /\ first = Cancel4 => registry = Cancel4
                /\ first = Server2 => registry = Server2
                /\ first = Cancel3 => registry \in {Cancel3, Cancel4}

\* Whoever comes to the ledger has closed the store, or has seen it closed.
Order ==
  first \in {Cancel3, Cancel4} =>
    /\ \A r \in Runners : todo[r] \in {<<>>, Ledger1} =>
         indexer = "returned" /\ closes > 0
    /\ ledger = "closed" => indexer = "returned" /\ closes > 0

\* Whoever comes past the server has seen it quiet.
Draining == {<<"drain", "wait">>, <<"drain", "cancel", "wait", "ledger">>}
Quiet == shut # "no" /\ (request => shut = "expired")

Drains ==
  /\ \A r \in Runners : todo[r] \in Draining => shut # "no"
  /\ first \in {Cancel4, Server2} =>
       /\ \A r \in Runners : todo[r] \in Past => Quiet
       /\ closes > 0 => Quiet

Types ==
  /\ mode \in {"online", "offline"}
  /\ main \in Stages
  /\ exiting \in BOOLEAN /\ cancelled \in BOOLEAN /\ done \in BOOLEAN
  /\ request \in BOOLEAN /\ ended \in BOOLEAN
  /\ registry \in Registries
  /\ todo \in [Runners -> Lists]
  /\ indexer \in {"none", "running", "returned", "exit"}
  /\ server \in {"none", "spawned", "registered", "serving", "over", "exit"}
  /\ shut \in {"no", "draining", "drained", "expired"}
  /\ ledger \in {"none", "open", "closed"}

ShutInv == Types /\ Progress /\ Token /\ Beginning /\ Order /\ Drains

----------------------------------------------------------------------------
(* Which lists come after which.                                           *)

\* The handler at the head of a list tells which list it is.
LEMMA Heads ==
  /\ \A l \in Lists : l # <<>> =>
       /\ Head(l) = "server" => l \in {Cancel4, Server2}
       /\ Head(l) = "drain" => l \in Draining
       /\ Head(l) = "cancel" => l = Cancel3
       /\ Head(l) = "wait" => l \in {Wait2, Wait1}
       /\ Head(l) = "close" => l \in Closing
       /\ Head(l) = "ledger" => l = Ledger1
BY DEF Lists, Past, Before, Cancel4, Cancel3, Wait2, Ledger1, Server2, Wait1,
       Draining, Closing, Idle

\* A list is its head followed by its tail.
LEMMA HeadAndTail ==
  ASSUME NEW S, NEW t \in Seq(S), t # <<>>
  PROVE  <<Head(t)>> \o Tail(t) = t
<1>1. Head(t) \in S /\ Tail(t) \in Seq(S) /\ Len(Tail(t)) = Len(t) - 1
  BY HeadTailProperties
<1>2. <<Head(t)>> \in Seq(S) /\ Len(<<Head(t)>>) = 1 BY <1>1
<1>3. Len(t) \in Nat /\ Len(t) > 0 BY EmptySeq, LenProperties
<1> DEFINE u == <<Head(t)>> \o Tail(t)
<1>4. /\ u \in Seq(S) /\ Len(u) = Len(t)
      /\ \A i \in 1..Len(t) :
           u[i] = IF i <= 1 THEN <<Head(t)>>[i] ELSE Tail(t)[i - 1]
  BY <1>1, <1>2, <1>3, ConcatProperties
<1>5. ASSUME NEW i \in 1..Len(t) PROVE u[i] = t[i]
  <2>1. CASE i = 1 BY <1>4, <2>1
  <2>2. CASE i > 1
    <3>1. u[i] = Tail(t)[i - 1] BY <1>4, <2>2
    <3>2. i - 1 \in 1..(Len(t) - 1) BY <1>3, <2>2
    <3> QED BY <3>1, <3>2
  <2> QED BY <2>1, <2>2
<1> QED BY <1>4, <1>5, SeqEqual

\* What is left of each list of handlers once its head has run.
LEMMA Tails ==
  /\ Tail(<<"drain", "cancel", "wait", "ledger">>) = Cancel3
  /\ Tail(<<"drain", "wait">>) = Wait1
  /\ Tail(Cancel4) = Cancel3 /\ Tail(Cancel3) = Wait2 /\ Tail(Wait2) = Ledger1
  /\ Tail(Ledger1) = <<>> /\ Tail(Server2) = Wait1 /\ Tail(Wait1) = <<>>
  /\ Tail(<<"close", "ledger">>) = Ledger1
  /\ Tail(<<"close">>) = <<>>
BY DEF Cancel4, Cancel3, Wait2, Ledger1, Server2, Wait1

\* What SetExitHandler makes of short lists.
LEMMA Prepending ==
  /\ \A a : <<a>> \o <<>> = <<a>>
  /\ \A a, b : <<a>> \o <<b>> = <<a, b>>
  /\ \A a, b, c : <<a>> \o <<b, c>> = <<a, b, c>>
  /\ \A a, b, c, d : <<a>> \o <<b, c, d>> = <<a, b, c, d>>
<1>1. ASSUME NEW a PROVE <<a>> \o <<>> = <<a>> OBVIOUS
<1>2. ASSUME NEW a, NEW b PROVE <<a>> \o <<b>> = <<a, b>>
  <2>1. <<a, b>> \in Seq({a, b}) /\ <<a, b>> # <<>> OBVIOUS
  <2>2. <<Head(<<a, b>>)>> \o Tail(<<a, b>>) = <<a, b>> BY <2>1, HeadAndTail
  <2>3. Head(<<a, b>>) = a /\ Tail(<<a, b>>) = <<b>> OBVIOUS
  <2> QED BY <2>2, <2>3
<1>3. ASSUME NEW a, NEW b, NEW c PROVE <<a>> \o <<b, c>> = <<a, b, c>>
  <2>1. <<a, b, c>> \in Seq({a, b, c}) /\ <<a, b, c>> # <<>> OBVIOUS
  <2>2. <<Head(<<a, b, c>>)>> \o Tail(<<a, b, c>>) = <<a, b, c>> BY <2>1, HeadAndTail
  <2>3. Head(<<a, b, c>>) = a /\ Tail(<<a, b, c>>) = <<b, c>> OBVIOUS
  <2> QED BY <2>2, <2>3
<1>4. ASSUME NEW a, NEW b, NEW c, NEW d PROVE <<a>> \o <<b, c, d>> = <<a, b, c, d>>
  <2>1. <<a, b, c, d>> \in Seq({a, b, c, d}) /\ <<a, b, c, d>> # <<>> OBVIOUS
  <2>2. <<Head(<<a, b, c, d>>)>> \o Tail(<<a, b, c, d>>) = <<a, b, c, d>>
    BY <2>1, HeadAndTail
  <2>3. Head(<<a, b, c, d>>) = a /\ Tail(<<a, b, c, d>>) = <<b, c, d>> OBVIOUS
  <2> QED BY <2>2, <2>3
<1> QED BY <1>1, <1>2, <1>3, <1>4

\* Setting a handler.
LEMMA Settings ==
  /\ <<"ledger">> \o <<>> = Ledger1
  /\ <<"wait">> \o Ledger1 = Wait2
  /\ <<"wait">> \o <<>> = Wait1
  /\ <<"cancel">> \o Wait2 = Cancel3
  /\ <<"server">> \o Cancel3 = Cancel4
  /\ <<"server">> \o Wait1 = Server2
<1>1. <<"ledger">> \o <<>> = <<"ledger">> /\ <<"wait">> \o <<>> = <<"wait">>
  BY Prepending, Zenon
<1>2. <<"wait">> \o <<"ledger">> = <<"wait", "ledger">> BY Prepending, Zenon
<1>3. <<"cancel">> \o <<"wait", "ledger">> = <<"cancel", "wait", "ledger">>
  BY Prepending, Zenon
<1>4. <<"server">> \o <<"cancel", "wait", "ledger">>
        = <<"server", "cancel", "wait", "ledger">>
  BY Prepending, Zenon
<1>5. <<"server">> \o <<"wait">> = <<"server", "wait">> BY Prepending, Zenon
<1> QED
  BY <1>1, <1>2, <1>3, <1>4, <1>5, Zenon
  DEF Cancel4, Cancel3, Wait2, Ledger1, Server2, Wait1

\* A handler that goes on.
LEMMA GoingOn ==
  /\ <<"drain">> \o Tail(Cancel4) = <<"drain", "cancel", "wait", "ledger">>
  /\ <<"drain">> \o Tail(Server2) = <<"drain", "wait">>
  /\ <<"close">> \o Tail(Wait2) = <<"close", "ledger">>
  /\ <<"close">> \o Tail(Wait1) = <<"close">>
<1>1. <<"drain">> \o Tail(Cancel4) = <<"drain", "cancel", "wait", "ledger">>
  <2>1. <<"drain">> \o <<"cancel", "wait", "ledger">>
          = <<"drain", "cancel", "wait", "ledger">>
    BY Prepending, Zenon
  <2> QED BY <2>1, Tails, Zenon DEF Cancel3
<1>2. <<"drain">> \o Tail(Server2) = <<"drain", "wait">>
  <2>1. <<"drain">> \o <<"wait">> = <<"drain", "wait">> BY Prepending, Zenon
  <2> QED BY <2>1, Tails, Zenon DEF Wait1
<1>3. <<"close">> \o Tail(Wait2) = <<"close", "ledger">>
  <2>1. <<"close">> \o <<"ledger">> = <<"close", "ledger">> BY Prepending, Zenon
  <2> QED BY <2>1, Tails, Zenon DEF Ledger1
<1>4. <<"close">> \o Tail(Wait1) = <<"close">>
  <2>1. <<"close">> \o <<>> = <<"close">> BY Prepending, Zenon
  <2> QED BY <2>1, Tails, Zenon
<1> QED BY <1>1, <1>2, <1>3, <1>4

\* The lists are all different: their lengths or their heads are.
LEMMA Different ==
  /\ Past \intersect Before = {}
  /\ Cancel4 \notin Draining /\ Server2 \notin Draining /\ Idle \notin Draining
  /\ {Cancel4, Cancel3, Wait2, Server2, Wait1, Idle} \intersect {<<>>, Ledger1} = {}
  /\ (Registries \union {Idle}) \intersect (Closing \union Draining) = {}
  /\ Cancel4 # Cancel3 /\ Cancel4 # Server2 /\ Cancel3 # Server2
  /\ {Cancel4, Cancel3, Server2} \intersect {<<>>, Ledger1, Wait2, Wait1} = {}
  /\ (Closing \union Draining) \intersect {<<>>, Ledger1, Cancel3, Wait1, Wait2} = {}
BY DEF Registries, Past, Before, Cancel4, Cancel3, Wait2, Ledger1, Server2,
       Wait1, Draining, Closing, Idle

\* A registry with one handler has those registered before it.
LEMMA HasOf ==
  /\ \A s \in Registries : Has(s, "cancel") => s \in {Cancel3, Cancel4}
  /\ \A s \in Registries : Has(s, "server") => s \in {Cancel4, Server2}
BY DEF Registries, Has, ToSet, Cancel4, Cancel3, Wait2, Ledger1, Server2, Wait1

----------------------------------------------------------------------------

\* Before main begins no handler is registered and nobody runs one.
LEMMA InitShutInv == Init => ShutInv
<1> SUFFICES ASSUME Init PROVE ShutInv OBVIOUS
<1>1. mode \in {"online", "offline"} BY ShutdownAssumption DEF Init
<1>2. Idle \in Lists /\ Idle \notin Past \union Closing \union Draining
  BY Different DEF Lists, Before, Registries
<1>3. Types BY <1>1, <1>2 DEF Init, Types, Stages, Registries
<1>4. Progress BY <1>1 DEF Init, Progress
<1>5. Token BY <1>2 DEF Init, Token
<1>6. <<>> \notin {Cancel3, Cancel4, Server2} BY Different
<1>7. Beginning
  <2>1. first \in Registries BY DEF Init, Registries
  <2> QED BY <1>6, <2>1 DEF Init, Beginning
<1>8. Order /\ Drains BY <1>2, <1>6 DEF Init, Order, Drains
<1> QED BY <1>3, <1>4, <1>5, <1>7, <1>8 DEF ShutInv

\* A goroutine takes a copy of the registry.
LEMMA LeaveStep ==
  ASSUME ShutInv, NEW r \in Runners, Leave(r),
         UNCHANGED <<mode, registry, done, shut, request, ledger, closes>>,
         indexer = "returned" => indexer' = "returned"
  PROVE  /\ exiting' = TRUE
         /\ (first \in Registries /\ todo \in [Runners -> Lists])'
         /\ Token' /\ Beginning' /\ Order' /\ Drains'
<1> USE DEF ShutInv, Types, Leave
<1>1. registry \in Lists /\ registry \notin Closing \union Draining
  BY Different DEF Registries, Lists, Past, Before
<1>2. exiting' = TRUE /\ (todo \in [Runners -> Lists])' BY <1>1 DEF Lists, Past, Before
<1>3. Token'
  <2>1. \A q \in Runners : todo'[q] \in Closing => todo[q] \in Closing
    BY <1>1
  <2> QED BY <2>1 DEF Token
<1>4. (first \in Registries)' BY DEF Beginning, Registries
<1>5. /\ first' = Cancel4 => registry = Cancel4
      /\ first' = Server2 => registry = Server2
      /\ first' = Cancel3 => registry \in {Cancel3, Cancel4}
  BY DEF Beginning
<1>6. Beginning' BY <1>2, <1>4, <1>5 DEF Beginning
<1>7. Order'
  <2>1. SUFFICES ASSUME first' \in {Cancel3, Cancel4}
                 PROVE  /\ \A q \in Runners : todo'[q] \in {<<>>, Ledger1} =>
                             indexer = "returned" /\ closes > 0
                        /\ ledger = "closed" => indexer = "returned" /\ closes > 0
    BY DEF Order
  <2>2. registry \notin {<<>>, Ledger1} BY <1>5, <2>1, Different
  <2>3. CASE exiting BY <2>1, <2>2, <2>3 DEF Order
  <2>4. CASE ~exiting
    <3>1. Idle \notin {<<>>, Ledger1} BY Different
    <3> QED BY <2>2, <2>4, <3>1 DEF Beginning
  <2> QED BY <2>3, <2>4
<1>8. Drains'
  <2>1. \A q \in Runners : todo'[q] \in Draining => todo[q] \in Draining BY <1>1
  <2>2. ASSUME first' \in {Cancel4, Server2}
        PROVE  /\ \A q \in Runners : todo'[q] \in Past => Quiet
               /\ closes > 0 => Quiet
    <3>1. registry \notin Past BY <1>5, <2>2, Different DEF Before
    <3>2. CASE exiting BY <2>2, <3>1, <3>2 DEF Drains
    <3>3. CASE ~exiting
      <4>1. Idle \notin Past BY Different DEF Before
      <4> QED BY <3>1, <3>3, <4>1 DEF Beginning
    <3> QED BY <3>2, <3>3
  <2> QED BY <2>1, <2>2 DEF Drains, Quiet
<1> QED BY <1>2, <1>3, <1>4, <1>6, <1>7, <1>8

----------------------------------------------------------------------------
(* The handlers.  Each takes the todo of a goroutine from one of Lists to  *)
(* the next.                                                               *)

\* What a handler that ends leaves alone.
LEMMA HandlerFrame ==
  ASSUME ShutInv, NEW r \in Runners, NEW l \in Lists, todo[r] # Idle,
         todo' = [todo EXCEPT ![r] = l],
         UNCHANGED <<mode, main, registry, exiting, first, indexer, server>>
  PROVE  /\ (todo \in [Runners -> Lists])'
         /\ \A q \in Runners : todo'[q] = IF q = r THEN l ELSE todo[q]
         /\ Progress' /\ Beginning' /\ exiting
<1> USE DEF ShutInv, Types
<1>1. exiting BY DEF Beginning
<1>2. (todo \in [Runners -> Lists])' BY DEF Lists, Past, Before
<1>3. \A q \in Runners : todo'[q] = IF q = r THEN l ELSE todo[q] OBVIOUS
<1>4. Progress' BY DEF Progress
<1>5. Beginning' BY <1>1 DEF Beginning, Registries
<1> QED BY <1>1, <1>2, <1>3, <1>4, <1>5

\* Which lists are in Lists, and which are in Past.
LEMMA Places ==
  /\ {Cancel4, Server2, Idle} \union Draining \subseteq Before
  /\ {<<>>, Ledger1, Wait2, Cancel3, Wait1} \union Closing \subseteq Past
  /\ Past \subseteq Lists /\ Before \subseteq Lists
BY DEF Lists, Past, Before, Draining, Closing

\* The server's handler keeps the invariant.
LEMMA ServerHandlerStep ==
  ASSUME ShutInv, NEW r \in Runners, ShutdownServer(r)
  PROVE  ShutInv'
<1> USE DEF ShutInv, Types, ShutdownServer
<1>1. todo[r] \in {Cancel4, Server2} BY Heads DEF Runs
<1> DEFINE l == <<"drain">> \o Tail(todo[r])
<1>2. l \in Draining BY <1>1, GoingOn DEF Draining
<1>3. l \in Lists /\ l \notin Past \union Closing \union {<<>>, Ledger1}
  BY <1>2, Places, Different
<1>4. todo' = [todo EXCEPT ![r] = l] /\ todo[r] # Idle
  BY <1>1, Different DEF HandlerGoesOn, Cancel4, Server2, Idle
<1> HIDE DEF l
<1>5. /\ (todo \in [Runners -> Lists])' /\ Progress' /\ Beginning'
      /\ \A q \in Runners : todo'[q] = IF q = r THEN l ELSE todo[q]
  BY <1>3, <1>4, HandlerFrame DEF stores
<1>6. Types' BY <1>5 DEF stores, Registries
<1>7. Token' BY <1>3, <1>5 DEF Token, stores
<1>8. Order' BY <1>3, <1>5 DEF Order, stores
<1>9. Drains' BY <1>2, <1>3, <1>5 DEF Drains, Quiet, stores
<1> QED BY <1>5, <1>6, <1>7, <1>8, <1>9

\* A server that has answered all its requests keeps the invariant.
LEMMA DrainedStep ==
  ASSUME ShutInv, NEW r \in Runners, Drained(r)
  PROVE  ShutInv'
<1> USE DEF ShutInv, Types, Drained
<1>1. todo[r] \in Draining BY Heads DEF Runs
<1> DEFINE l == Tail(todo[r])
<1>2. l \in {Cancel3, Wait1} BY <1>1, Tails DEF Draining
<1>3. l \in Lists /\ l \notin Draining \union Closing \union {<<>>, Ledger1}
  BY <1>2, Places, Different
<1>4. todo' = [todo EXCEPT ![r] = l] /\ todo[r] # Idle
  BY <1>1, Places, Different DEF HandlerReturns, HandlerGoesOn
<1> HIDE DEF l
<1>5. /\ (todo \in [Runners -> Lists])' /\ Progress' /\ Beginning' /\ exiting
      /\ \A q \in Runners : todo'[q] = IF q = r THEN l ELSE todo[q]
  BY <1>3, <1>4, HandlerFrame DEF stores, workers
<1>6. Types' BY <1>5 DEF stores, workers, Registries
<1>7. Token' BY <1>3, <1>5 DEF Token, stores, workers
<1>8. Order' BY <1>3, <1>5 DEF Order, stores, workers
<1>9. Drains'
  <2>1. shut # "no" BY <1>1 DEF Drains
  <2> QED BY <1>3, <1>5, <2>1 DEF Drains, Quiet, stores
<1> QED BY <1>5, <1>6, <1>7, <1>8, <1>9

\* A server whose time to drain is over keeps the invariant.
LEMMA DrainExpiresStep ==
  ASSUME ShutInv, NEW r \in Runners, DrainExpires(r)
  PROVE  ShutInv'
<1> USE DEF ShutInv, Types, DrainExpires
<1>1. todo[r] \in Draining BY Heads DEF Runs
<1> DEFINE l == Tail(todo[r])
<1>2. l \in {Cancel3, Wait1} BY <1>1, Tails DEF Draining
<1>3. l \in Lists /\ l \notin Draining \union Closing \union {<<>>, Ledger1}
  BY <1>2, Places, Different
<1>4. todo' = [todo EXCEPT ![r] = l] /\ todo[r] # Idle
  BY <1>1, Places, Different DEF HandlerReturns, HandlerGoesOn
<1> HIDE DEF l
<1>5. /\ (todo \in [Runners -> Lists])' /\ Progress' /\ Beginning' /\ exiting
      /\ \A q \in Runners : todo'[q] = IF q = r THEN l ELSE todo[q]
  BY <1>3, <1>4, HandlerFrame DEF stores, workers
<1>6. Types' BY <1>5 DEF stores, workers, Registries
<1>7. Token' BY <1>3, <1>5 DEF Token, stores, workers
<1>8. Order' BY <1>3, <1>5 DEF Order, stores, workers
<1>9. Drains'
  <2>1. shut # "no" BY <1>1 DEF Drains
  <2> QED BY <1>3, <1>5, <2>1 DEF Drains, Quiet, stores
<1> QED BY <1>5, <1>6, <1>7, <1>8, <1>9

\* Cancelling the indexer's context keeps the invariant.
LEMMA CancelStep ==
  ASSUME ShutInv, NEW r \in Runners, CancelIndexer(r)
  PROVE  ShutInv'
<1> USE DEF ShutInv, Types, CancelIndexer
<1>1. todo[r] = Cancel3 BY Heads DEF Runs
<1> DEFINE l == Tail(todo[r])
<1>2. l = Wait2 BY <1>1, Tails
<1>3. l \in Lists /\ l \notin Draining \union Closing \union {<<>>, Ledger1}
  BY <1>2, Places, Different
<1>4. todo' = [todo EXCEPT ![r] = l] /\ todo[r] # Idle
  BY <1>1, Places, Different DEF HandlerReturns, HandlerGoesOn
<1> HIDE DEF l
<1>5. /\ (todo \in [Runners -> Lists])' /\ Progress' /\ Beginning' /\ exiting
      /\ \A q \in Runners : todo'[q] = IF q = r THEN l ELSE todo[q]
  BY <1>3, <1>4, HandlerFrame DEF stores, workers
<1>6. Types' BY <1>5 DEF stores, workers, Registries
<1>7. Token' BY <1>3, <1>5 DEF Token, stores, workers
<1>8. Order' BY <1>3, <1>5 DEF Order, stores, workers
<1>9. Drains'
  <2>1. todo[r] \in Past BY <1>1, Places
  <2>2. l \notin Draining BY <1>3
  <2> QED BY <1>5, <2>1, <2>2 DEF Drains, Quiet, stores, workers
<1> QED BY <1>5, <1>6, <1>7, <1>8, <1>9

\* Waiting for the indexer to return keeps the invariant.
LEMMA AwaitStep ==
  ASSUME ShutInv, NEW r \in Runners, AwaitIndexer(r)
  PROVE  ShutInv'
<1> USE DEF ShutInv, Types, AwaitIndexer
<1>1. todo[r] \in {Wait2, Wait1} BY Heads DEF Runs
<1> DEFINE l == <<"close">> \o Tail(todo[r])
<1>2. l \in Closing
  <2>1. CASE todo[r] = Wait2
    <3>1. l = <<"close", "ledger">> BY <2>1, GoingOn
    <3> QED BY <3>1 DEF Closing
  <2>2. CASE todo[r] = Wait1
    <3>1. l = <<"close">> BY <2>2, GoingOn
    <3> QED BY <3>1 DEF Closing
  <2> QED BY <1>1, <2>1, <2>2
<1>3. l \in Lists /\ l \notin Draining \union {<<>>, Ledger1}
  <2> HIDE DEF l
  <2> QED BY <1>2, Places, Different
<1>4. todo' = [todo EXCEPT ![r] = l] /\ todo[r] # Idle
  BY <1>1, Places, Different DEF HandlerReturns, HandlerGoesOn
<1> HIDE DEF l
<1>5. /\ (todo \in [Runners -> Lists])' /\ Progress' /\ Beginning' /\ exiting
      /\ \A q \in Runners : todo'[q] = IF q = r THEN l ELSE todo[q]
  BY <1>3, <1>4, HandlerFrame DEF stores, workers
<1>6. Types'
  <2>1. /\ UNCHANGED <<mode, main, registry, exiting, indexer, cancelled, server,
                      shut, request, ledger, ended>>
        /\ done' \in BOOLEAN
    BY DEF stores
  <2>2. Types OBVIOUS
  <2>3. (todo \in [Runners -> Lists])' BY <1>5
  <2>4. (registry \in Registries)' BY <2>1, <2>2 DEF Registries
  <2>5. (main \in Stages)' BY <2>1, <2>2 DEF Stages
  <2> QED BY ONLY <2>1, <2>2, <2>3, <2>4, <2>5 DEF Types
<1>7. Token' BY <1>3, <1>5 DEF Token, stores, workers
<1>8. Order' BY <1>3, <1>5 DEF Order, stores, workers
<1>9. Drains'
  <2>1. todo[r] \in Past BY <1>1, Places
  <2>2. l \notin Draining BY <1>3
  <2> QED BY <1>5, <2>1, <2>2 DEF Drains, Quiet, stores, workers
<1> QED BY <1>5, <1>6, <1>7, <1>8, <1>9

\* Closing the store keeps the invariant.
LEMMA CloseStoreStep ==
  ASSUME ShutInv, NEW r \in Runners, CloseStore(r)
  PROVE  ShutInv'
<1> USE DEF ShutInv, Types, CloseStore
<1>1. todo[r] \in Closing BY Heads DEF Runs
<1> DEFINE l == Tail(todo[r])
<1>2. l \in {<<>>, Ledger1} BY <1>1, Tails DEF Closing
<1>3. l \in Lists /\ l \notin Draining \union Closing
  BY <1>2, Places, Different
<1>4. todo' = [todo EXCEPT ![r] = l] /\ todo[r] # Idle
  BY <1>1, Places, Different DEF HandlerReturns, HandlerGoesOn
<1> HIDE DEF l
<1>5. /\ (todo \in [Runners -> Lists])' /\ Progress' /\ Beginning' /\ exiting
      /\ \A q \in Runners : todo'[q] = IF q = r THEN l ELSE todo[q]
  BY <1>3, <1>4, HandlerFrame DEF stores, workers
<1>6. Types' BY <1>5 DEF stores, workers, Registries
<1>7. Token'
  <2>1. closes' = closes + 1 /\ closes \in Nat BY DEF Token
  <2> QED BY <1>1, <1>3, <1>5, <2>1 DEF Token, stores, workers
<1>8. Order'
  <2>1. closes' = closes + 1 /\ closes \in Nat BY DEF Token
  <2>2. first \in {Cancel3, Cancel4} => indexer = "returned"
    <3>1. first \in {Cancel3, Cancel4} => mode = "online"
      BY Different DEF Beginning, Registries
    <3> QED BY <1>1, <3>1 DEF Token
  <2> QED BY <1>5, <2>1, <2>2 DEF Order, workers
<1>9. Drains'
  <2>1. todo[r] \in Past BY <1>1, Places
  <2>2. l \notin Draining BY <1>3
  <2> QED BY <1>5, <2>1, <2>2 DEF Drains, Quiet, stores, workers
<1> QED BY <1>5, <1>6, <1>7, <1>8, <1>9

\* Closing the ledger keeps the invariant.
LEMMA CloseLedgerStep ==
  ASSUME ShutInv, NEW r \in Runners, CloseLedger(r)
  PROVE  ShutInv'
<1> USE DEF ShutInv, Types, CloseLedger
<1>1. todo[r] = Ledger1 BY Heads DEF Runs
<1> DEFINE l == Tail(todo[r])
<1>2. l = <<>> BY <1>1, Tails
<1>3. l \in Lists /\ l \notin Draining \union Closing
  BY <1>2, Places, Different
<1>4. todo' = [todo EXCEPT ![r] = l] /\ todo[r] # Idle
  BY <1>1, Places, Different DEF HandlerReturns, HandlerGoesOn
<1> HIDE DEF l
<1>5. /\ (todo \in [Runners -> Lists])' /\ Progress' /\ Beginning' /\ exiting
      /\ \A q \in Runners : todo'[q] = IF q = r THEN l ELSE todo[q]
  BY <1>3, <1>4, HandlerFrame DEF stores, workers
<1>6. Types' BY <1>5 DEF stores, workers, Registries
<1>7. Token' BY <1>3, <1>5 DEF Token, stores, workers
<1>8. Order' BY <1>1, <1>3, <1>5 DEF Order, stores, workers
<1>9. Drains'
  <2>1. todo[r] \in Past BY <1>1, Places
  <2>2. l \notin Draining BY <1>3
  <2> QED BY <1>5, <2>1, <2>2 DEF Drains, Quiet, stores, workers
<1> QED BY <1>5, <1>6, <1>7, <1>8, <1>9

----------------------------------------------------------------------------
(* The other goroutines.                                                   *)

\* Handlers are set in one order, and those an exit began with stay set.
LEMMA SetStep ==
  ASSUME ShutInv, InitLedger \/ SetStoreHandler \/ SetCancelHandler \/ SetServerHandler
  PROVE  ShutInv'
<1> USE DEF ShutInv, Types
<1>1. /\ UNCHANGED <<mode, exitVars, indexer, cancelled, done, shut, request, closes, ended>>
      /\ ledger' \in {ledger, "open"}
  BY DEF InitLedger, SetStoreHandler, SetCancelHandler, SetServerHandler, workers, stores
<1>2. /\ registry' \in Registries
      /\ registry \in {<<>>, Ledger1, Wait2, Wait1}
         \/ (registry = Cancel3 /\ registry' = Cancel4)
      /\ Progress' /\ main' \in Stages
      /\ server' \in {"none", "spawned", "registered", "serving", "over", "exit"}
  <2>1. CASE InitLedger
    <3>1. registry = <<>> /\ registry' = Ledger1 /\ mode = "online"
      BY <2>1, Settings DEF InitLedger, SetExitHandler, Progress
    <3> QED BY <2>1, <3>1 DEF InitLedger, Progress, Registries, Stages, workers
  <2>2. CASE SetStoreHandler
    <3>1. IF mode = "online" THEN registry = Ledger1 /\ registry' = Wait2
                             ELSE registry = <<>> /\ registry' = Wait1
      BY <2>2, Settings DEF SetStoreHandler, SetExitHandler, Progress
    <3> QED BY <2>2, <3>1 DEF SetStoreHandler, Progress, Registries, Stages, workers
  <2>3. CASE SetCancelHandler
    <3>1. registry = Wait2 /\ registry' = Cancel3 /\ mode = "online"
      BY <2>3, Settings DEF SetCancelHandler, SetExitHandler, Progress
    <3> QED BY <2>3, <3>1 DEF SetCancelHandler, Progress, Registries, Stages, workers
  <2>4. CASE SetServerHandler
    <3>1. IF mode = "online" THEN registry = Cancel3 /\ registry' = Cancel4
                             ELSE registry = Wait1 /\ registry' = Server2
      BY <2>4, Settings DEF SetServerHandler, SetExitHandler, Progress
    <3> QED BY <2>4, <3>1 DEF SetServerHandler, Progress, Registries
  <2> QED BY <2>1, <2>2, <2>3, <2>4
<1>3. Types' BY <1>1, <1>2 DEF exitVars, Registries
<1>4. Token' BY <1>1 DEF Token, exitVars
<1>5. Beginning'
  <2>1. /\ registry = Cancel4 => registry' = Cancel4
        /\ registry = Server2 => registry' = Server2
        /\ registry \in {Cancel3, Cancel4} => registry' \in {Cancel3, Cancel4}
    BY <1>2, Different
  <2> QED BY <1>1, <2>1 DEF Beginning, Registries, exitVars
<1>6. Order' /\ Drains' BY <1>1 DEF Order, Drains, Quiet, exitVars
<1> QED BY <1>2, <1>3, <1>4, <1>5, <1>6

\* The steps of main, of the indexer and of the server that set no handler and
\* begin no exit.
LEMMA PlainStep ==
  ASSUME ShutInv,
         \/ InitNode \/ InitStore \/ SpawnIndexer \/ MakeRouter \/ SpawnServer
         \/ StartFailsExiting \/ IndexerStops \/ Listen
         \/ RequestArrives \/ RequestEnds \/ (ListenFails /\ exiting)
         \/ \E r \in Runners : OSExit(r)
         \/ UNCHANGED vars
  PROVE  ShutInv'
<1> USE DEF ShutInv, Types
<1>1. UNCHANGED <<mode, registry, exitVars, cancelled, shut, stores>>
  BY DEF InitNode, InitStore, SpawnIndexer, MakeRouter, SpawnServer, StartFailsExiting,
         IndexerStops, Listen, RequestArrives, RequestEnds, ListenFails, OSExit,
         workers, vars, exitVars, stores
<1>2. Types'
  <2>1. /\ (mode \in {"online", "offline"} /\ registry \in Registries)'
        /\ (exiting \in BOOLEAN /\ todo \in [Runners -> Lists])'
        /\ (cancelled \in BOOLEAN /\ ledger \in {"none", "open", "closed"})'
        /\ (shut \in {"no", "draining", "drained", "expired"})'
    BY <1>1 DEF exitVars, stores, Registries
  <2>2. main' \in Stages /\ ended' \in BOOLEAN
    BY DEF InitNode, InitStore, SpawnIndexer, MakeRouter, SpawnServer, StartFailsExiting,
         IndexerStops, Listen, RequestArrives, RequestEnds, ListenFails, OSExit, vars, Stages
  <2>3. /\ done' \in BOOLEAN /\ request' \in BOOLEAN
        /\ indexer' \in {"none", "running", "returned", "exit"}
    BY DEF InitNode, InitStore, SpawnIndexer, MakeRouter, SpawnServer, StartFailsExiting,
         IndexerStops, Listen, RequestArrives, RequestEnds, ListenFails, OSExit, vars, workers
  <2>4. server' \in {"none", "spawned", "registered", "serving", "over", "exit"}
    BY DEF InitNode, InitStore, SpawnIndexer, MakeRouter, SpawnServer, StartFailsExiting,
         IndexerStops, Listen, RequestArrives, RequestEnds, ListenFails, OSExit, vars, workers
  <2> QED BY <2>1, <2>2, <2>3, <2>4
<1>3. Progress'
  <2>1. CASE InitNode BY <1>1, <2>1 DEF InitNode, Progress, workers
  <2>2. CASE InitStore BY <1>1, <2>2 DEF InitStore, Progress, workers
  <2>3. CASE SpawnIndexer BY <1>1, <2>3 DEF SpawnIndexer, Progress
  <2>4. CASE MakeRouter BY <1>1, <2>4 DEF MakeRouter, Progress, workers
  <2>5. CASE SpawnServer BY <1>1, <2>5 DEF SpawnServer, Progress
  <2>6. CASE StartFailsExiting BY <1>1, <2>6 DEF StartFailsExiting, Progress, workers
  <2>7. CASE IndexerStops BY <1>1, <2>7 DEF IndexerStops, Progress
  <2>8. CASE Listen \/ (ListenFails /\ exiting)
    BY <1>1, <2>8 DEF Listen, ListenFails, Progress
  <2>9. CASE RequestArrives \/ RequestEnds
    BY <1>1, <2>9 DEF RequestArrives, RequestEnds, Progress
  <2>10. CASE (\E r \in Runners : OSExit(r)) \/ UNCHANGED vars
    BY <1>1, <2>10 DEF OSExit, vars, workers, Progress
  <2> QED BY <2>1, <2>2, <2>3, <2>4, <2>5, <2>6, <2>7, <2>8, <2>9, <2>10
<1>4. /\ indexer = "returned" => indexer' = "returned" /\ done' = done
      /\ done' # done => indexer = "running" /\ indexer' = "returned"
  <2>1. CASE SpawnIndexer BY <2>1 DEF SpawnIndexer, Progress
  <2>2. CASE IndexerStops BY <2>2 DEF IndexerStops
  <2>3. CASE ~SpawnIndexer /\ ~IndexerStops
    BY <2>3 DEF InitNode, InitStore, MakeRouter, SpawnServer, StartFailsExiting, Listen,
         RequestArrives, RequestEnds, ListenFails, OSExit, workers, vars
  <2> QED BY <2>1, <2>2, <2>3
<1>5. Token' BY <1>1, <1>4 DEF Token, exitVars, stores
<1>6. Beginning' BY <1>1 DEF Beginning, Registries, exitVars, stores
<1>7. Order' BY <1>1, <1>4 DEF Order, exitVars, stores
<1>8. Drains'
  <2>1. request' => request \/ shut = "no"
    BY DEF InitNode, InitStore, SpawnIndexer, MakeRouter, SpawnServer, StartFailsExiting,
         IndexerStops, Listen, RequestArrives, RequestEnds, ListenFails, OSExit,
         workers, vars
  <2> QED BY <1>1, <2>1 DEF Drains, Quiet, exitVars, stores
<1> QED BY <1>2, <1>3, <1>5, <1>6, <1>7, <1>8

\* An exit begins, or is joined.
LEMMA LeavingStep ==
  ASSUME ShutInv, Signal \/ StartFails \/ IndexerFatal \/ (ListenFails /\ ~exiting)
  PROVE  ShutInv'
<1> USE DEF ShutInv, Types
<1>1. CASE Signal
  <2>1. Leave("signal") /\ "signal" \in Runners BY <1>1 DEF Signal, Runners
  <2>2. /\ UNCHANGED <<mode, main, registry, indexer, cancelled, done, server, shut,
                       request, ledger, closes, ended>>
    BY <1>1 DEF Signal, workers, stores
  <2>3. /\ exiting' = TRUE /\ (todo \in [Runners -> Lists])'
        /\ Token' /\ Beginning' /\ Order' /\ Drains'
    BY <2>1, <2>2, LeaveStep
  <2>4. Types' /\ Progress' BY <2>2, <2>3 DEF Progress, Registries
  <2> QED BY <2>3, <2>4
<1>2. CASE StartFails
  <2>1. Leave("main") /\ "main" \in Runners BY <1>2 DEF StartFails, Runners
  <2>2. /\ UNCHANGED <<mode, registry, indexer, cancelled, done, server, shut,
                       request, ledger, closes, ended>>
        /\ main # "idle" /\ main' = "exit"
    BY <1>2 DEF StartFails, workers, stores
  <2>3. /\ exiting' = TRUE /\ (todo \in [Runners -> Lists])'
        /\ Token' /\ Beginning' /\ Order' /\ Drains'
    BY <2>1, <2>2, LeaveStep
  <2>4. Types' /\ Progress' BY <2>2, <2>3 DEF Progress, Registries, Stages
  <2> QED BY <2>3, <2>4
<1>3. CASE IndexerFatal
  <2>1. Leave("indexer") /\ "indexer" \in Runners BY <1>3 DEF IndexerFatal, Runners
  <2>2. /\ UNCHANGED <<mode, main, registry, cancelled, done, server, shut,
                       request, ledger, closes, ended>>
        /\ indexer = "running" /\ indexer' = "exit" /\ ~exiting
    BY <1>3 DEF IndexerFatal, workers, stores
  <2>3. /\ exiting' = TRUE /\ (todo \in [Runners -> Lists])'
        /\ Token' /\ Beginning' /\ Order' /\ Drains'
    BY <2>1, <2>2, LeaveStep
  <2>4. Types' /\ Progress' BY <2>2, <2>3 DEF Progress, Registries
  <2> QED BY <2>3, <2>4
<1>4. CASE ListenFails /\ ~exiting
  <2>1. Leave("server") /\ "server" \in Runners BY <1>4 DEF ListenFails, Runners
  <2>2. /\ UNCHANGED <<mode, main, registry, indexer, cancelled, done, shut,
                       request, ledger, closes, ended>>
        /\ server = "registered" /\ server' = "exit"
    BY <1>4 DEF ListenFails, workers, stores
  <2>3. /\ exiting' = TRUE /\ (todo \in [Runners -> Lists])'
        /\ Token' /\ Beginning' /\ Order' /\ Drains'
    BY <2>1, <2>2, LeaveStep
  <2>4. Types' /\ Progress' BY <2>2, <2>3 DEF Progress, Registries
  <2> QED BY <2>3, <2>4
<1> QED BY <1>1, <1>2, <1>3, <1>4

\* Every step of main, of the runners and of the server keeps the invariant.
LEMMA StepShutInv == ShutInv /\ [Next]_vars => ShutInv'
<1> SUFFICES ASSUME ShutInv, [Next]_vars PROVE ShutInv' OBVIOUS
<1>1. ASSUME NEW r \in Runners, RunHandlers(r) PROVE ShutInv'
  BY <1>1, ServerHandlerStep, DrainedStep, DrainExpiresStep, CancelStep, AwaitStep,
     CloseStoreStep, CloseLedgerStep, PlainStep DEF RunHandlers
<1>2. CASE Start BY <1>2, SetStep, PlainStep DEF Start
<1>3. CASE Signal \/ StartFails \/ IndexerFatal BY <1>3, LeavingStep
<1>4. CASE StartFailsExiting \/ IndexerStops \/ Listen \/ RequestArrives
           \/ RequestEnds \/ UNCHANGED vars
  BY <1>4, PlainStep
<1>5. CASE SetServerHandler BY <1>5, SetStep
<1>6. CASE ListenFails BY <1>6, LeavingStep, PlainStep
<1> QED BY <1>1, <1>2, <1>3, <1>4, <1>5, <1>6 DEF Next

\* The order of the exit handlers and who runs them is as the invariant says in
\* every reachable state.
LEMMA InductiveShut == Spec => []ShutInv
<1> QED BY InitShutInv, StepShutInv, PTL DEF Spec

\* An online process closes its store once, and only after its indexer has
\* returned, however many goroutines run the exit handlers and wherever they
\* are in them (main.go 229-235).
THEOREM StoreOutlives == Spec => []StoreOutlivesIndexer
<1>1. ShutInv => StoreOutlivesIndexer BY DEF ShutInv, Token, StoreOutlivesIndexer
<1> QED BY <1>1, InductiveShut, PTL

\* An exit that begins once the indexer's handlers are set closes the ledger
\* after the indexer has returned and the store is closed, whatever handlers
\* other goroutines run meanwhile (process.go 38-46, main.go 164, 230 and 242).
THEOREM LedgerLast == Spec => []LedgerClosedLast
<1>1. ShutInv => LedgerClosedLast
  BY HasOf DEF ShutInv, Beginning, Order, LedgerClosedLast
<1> QED BY <1>1, InductiveShut, PTL

\* Requests are answered from an open store when the server's handler was set
\* and no request outlasts the time it is given (main.go 256-263).
THEOREM RequestsFindStore == Spec => []RequestsFindStoreOpen
<1>1. ShutInv => RequestsFindStoreOpen
  BY HasOf DEF ShutInv, Types, Token, Beginning, Drains, Quiet, RequestsFindStoreOpen
<1> QED BY <1>1, InductiveShut, PTL

----------------------------------------------------------------------------
(* How often the store is closed, and types.                               *)

Drain4 == <<"drain", "cancel", "wait", "ledger">>
Drain2 == <<"drain", "wait">>
Close2 == <<"close", "ledger">>
Close1 == <<"close">>

\* The lists of handlers left to run, in each mode.
ListsOf(m) ==
  {Idle, <<>>} \union
    IF m = "online" THEN {Ledger1, Wait2, Cancel3, Cancel4, Drain4, Close2}
    ELSE {Wait1, Server2, Drain2, Close1}

\* From each list of handlers, the one that is left when its head has run.
Onward ==
  { <<Cancel4, Drain4>>, <<Drain4, Cancel3>>, <<Cancel3, Wait2>>, <<Wait2, Close2>>,
    <<Close2, Ledger1>>, <<Ledger1, <<>> >>, <<Server2, Drain2>>, <<Drain2, Wait1>>,
    <<Wait1, Close1>>, <<Close1, <<>> >> }

\* Beside the signal goroutine one goroutine at most is in Exit, for the flag
\* is looked at under the lock; and each has closed the store at most once.
Over(r) == IF todo[r] \in {<<>>, Ledger1} THEN 1 ELSE 0

ClosedBy == /\ closes \in Nat
            /\ closes <= Over("signal") + Over("main") + Over("indexer") + Over("server")

Alone ==
  \A r, q \in Runners \ {"signal"} : todo[r] # Idle /\ todo[q] # Idle => r = q

OfMode == \A r \in Runners : todo[r] \in ListsOf(mode)

CountInv == ClosedBy /\ Alone /\ OfMode

\* Goroutine r begins or joins an exit, or runs a handler.
Begins(r) ==
  /\ closes' = closes /\ Leave(r) /\ todo[r] = Idle
  /\ r # "signal" => \A q \in Runners : todo[q] = Idle

Goes(r) ==
  \E l : /\ todo' = [todo EXCEPT ![r] = l]
         /\ <<todo[r], l>> \in Onward
         /\ closes' = IF todo[r] \in Closing THEN closes + 1 ELSE closes

\* What a handler leaves alone, and what two of them need or change.
Spares(r) ==
  /\ UNCHANGED <<mode, main, registry, exiting, first, indexer, ended>>
  /\ cancelled => cancelled'
  /\ cancelled' # cancelled => todo[r] = Cancel3
  /\ mode = "online" /\ todo[r] = Wait2 => done

\* To run handlers is to run one, or to call os.Exit after the last.
LEMMA HandlerSteps ==
  ASSUME ShutInv, NEW r \in Runners, RunHandlers(r)
  PROVE  (Goes(r) /\ Spares(r)) \/ OSExit(r)
<1> USE DEF Goes
<1>0. Wait2 \notin {Cancel4, Server2, Cancel3, Ledger1} \union Draining \union Closing
  BY Different
<1>1. todo[r] \in Lists BY DEF ShutInv, Types
<1>2. CASE ShutdownServer(r)
  <2>1. todo[r] \in {Cancel4, Server2} BY <1>1, <1>2, Heads DEF ShutdownServer, Runs
  <2>2. todo[r] \notin Closing BY <2>1, Different, Places
  <2>3. <<todo[r], <<"drain">> \o Tail(todo[r])>> \in Onward
    BY <2>1, GoingOn DEF Onward, Drain4, Drain2
  <2>4. Spares(r)
    BY <1>0, <1>2, <2>1 DEF Spares, ShutdownServer, stores
  <2> QED BY <1>2, <2>2, <2>3, <2>4 DEF ShutdownServer, HandlerGoesOn, stores
<1>3. CASE Drained(r) \/ DrainExpires(r)
  <2>1. todo[r] \in Draining BY <1>1, <1>3, Heads DEF Drained, DrainExpires, Runs
  <2>2. todo[r] \notin Closing BY <2>1, Different, Places
  <2>3. <<todo[r], Tail(todo[r])>> \in Onward
    BY <2>1, Tails DEF Onward, Draining, Drain4, Drain2
  <2>4. Spares(r)
    BY <1>0, <1>3, <2>1 DEF Spares, Drained, DrainExpires, stores
  <2> QED BY <1>3, <2>2, <2>3, <2>4 DEF Drained, DrainExpires, HandlerReturns, stores
<1>4. CASE CancelIndexer(r)
  <2>1. todo[r] = Cancel3 BY <1>1, <1>4, Heads DEF CancelIndexer, Runs
  <2>2. todo[r] \notin Closing BY <2>1, Different, Places
  <2>3. <<todo[r], Tail(todo[r])>> \in Onward BY <2>1, Tails DEF Onward
  <2>4. Spares(r)
    BY <1>0, <1>4, <2>1 DEF Spares, CancelIndexer, stores
  <2> QED BY <1>4, <2>2, <2>3, <2>4 DEF CancelIndexer, HandlerReturns, stores
<1>5. CASE AwaitIndexer(r)
  <2>1. todo[r] \in {Wait2, Wait1} BY <1>1, <1>5, Heads DEF AwaitIndexer, Runs
  <2>2. todo[r] \notin Closing BY <2>1, Different, Places
  <2>3. <<todo[r], <<"close">> \o Tail(todo[r])>> \in Onward
    BY <2>1, GoingOn DEF Onward, Close2, Close1
  <2>4. Spares(r)
    BY <1>0, <1>5, <2>1 DEF Spares, AwaitIndexer, stores
  <2> QED BY <1>5, <2>2, <2>3, <2>4 DEF AwaitIndexer, HandlerGoesOn, stores
<1>6. CASE CloseStore(r)
  <2>1. todo[r] \in Closing BY <1>1, <1>6, Heads DEF CloseStore, Runs
  <2>2. <<todo[r], Tail(todo[r])>> \in Onward
    BY <2>1, Tails DEF Onward, Closing, Close2, Close1
  <2>3. Spares(r)
    BY <1>0, <1>6, <2>1 DEF Spares, CloseStore, workers
  <2> QED BY <1>6, <2>1, <2>2, <2>3 DEF CloseStore, HandlerReturns
<1>7. CASE CloseLedger(r)
  <2>1. todo[r] = Ledger1 BY <1>1, <1>7, Heads DEF CloseLedger, Runs
  <2>2. todo[r] \notin Closing BY <2>1, Different
  <2>3. <<todo[r], Tail(todo[r])>> \in Onward BY <2>1, Tails DEF Onward
  <2>4. Spares(r)
    BY <1>0, <1>7, <2>1 DEF Spares, CloseLedger, workers
  <2> QED BY <1>7, <2>2, <2>3, <2>4 DEF CloseLedger, HandlerReturns
<1> QED BY <1>2, <1>3, <1>4, <1>5, <1>6, <1>7 DEF RunHandlers

\* A step begins an exit, runs a handler, or does neither.
LEMMA ExitSteps ==
  ASSUME ShutInv, [Next]_vars
  PROVE  /\ mode' = mode
         /\ UNCHANGED <<todo, closes>> \/ \E r \in Runners : Begins(r) \/ Goes(r)
<1> USE DEF Begins, Goes
<1>1. ~exiting => \A q \in Runners : todo[q] = Idle BY DEF ShutInv, Beginning
<1>2. CASE Signal
  <2>1. Begins("signal") /\ "signal" \in Runners BY <1>2 DEF Signal, Runners, stores
  <2> QED BY <1>2, <2>1 DEF Signal
<1>3. CASE StartFails
  <2>1. Begins("main") /\ "main" \in Runners
    BY <1>1, <1>3 DEF StartFails, Runners, stores
  <2> QED BY <1>3, <2>1 DEF StartFails
<1>4. CASE IndexerFatal
  <2>1. Begins("indexer") /\ "indexer" \in Runners
    BY <1>1, <1>4 DEF IndexerFatal, Runners, stores
  <2> QED BY <1>4, <2>1 DEF IndexerFatal
<1>5. CASE ListenFails /\ ~exiting
  <2>1. Begins("server") /\ "server" \in Runners
    BY <1>1, <1>5 DEF ListenFails, Runners, stores
  <2> QED BY <1>5, <2>1 DEF ListenFails
<1>6. ASSUME NEW r \in Runners, OSExit(r) PROVE UNCHANGED <<mode, todo, closes>>
  BY <1>6 DEF OSExit, exitVars, stores
<1>7. CASE \/ Start \/ StartFailsExiting \/ IndexerStops \/ SetServerHandler \/ Listen
            \/ (ListenFails /\ exiting) \/ RequestArrives \/ RequestEnds \/ UNCHANGED vars
  <2>1. UNCHANGED <<mode, todo, closes>>
    BY <1>7 DEF Start, InitLedger, InitNode, InitStore, SetStoreHandler, SpawnIndexer,
       SetCancelHandler, MakeRouter, SpawnServer, StartFailsExiting, IndexerStops,
       SetServerHandler, Listen, ListenFails, RequestArrives, RequestEnds, exitVars,
       stores, vars
  <2> QED BY <2>1
<1>8. ASSUME NEW r \in Runners, RunHandlers(r)
       PROVE  mode' = mode /\ (Goes(r) \/ UNCHANGED <<todo, closes>>)
  BY <1>6, <1>8, HandlerSteps DEF Spares
<1> HIDE DEF Begins, Goes
<1> QED BY <1>2, <1>3, <1>4, <1>5, <1>7, <1>8 DEF Next

\* What is left is of the same mode, and its handlers close the store once.
LEMMA OnwardKeeps ==
  ASSUME NEW m, NEW a \in ListsOf(m), NEW l, <<a, l>> \in Onward
  PROVE  /\ l \in ListsOf(m) /\ a # Idle /\ l # Idle
         /\ a \in {<<>>, Ledger1} => l = <<>>
         /\ a \in Closing => l \in {<<>>, Ledger1} /\ a \notin {<<>>, Ledger1}
BY DEF ListsOf, Onward, Closing, Idle, Drain4, Drain2, Close2, Close1,
       Cancel4, Cancel3, Wait2, Ledger1, Server2, Wait1

\* A registry is one of the lists of its mode.
LEMMA RegistryOfMode ==
  ASSUME mode \in {"online", "offline"}
  PROVE  /\ Registries \subseteq ListsOf(mode)
         /\ Idle \notin {<<>>, Ledger1}
BY Different DEF Registries, ListsOf

\* No step lets two goroutines into Exit or closes the store once more than
\* its goroutine may.
LEMMA StepCountInv == ShutInv /\ CountInv /\ [Next]_vars => CountInv'
<1> SUFFICES ASSUME ShutInv, CountInv, [Next]_vars PROVE CountInv' OBVIOUS
<1>1. /\ mode' = mode /\ mode \in {"online", "offline"} /\ registry \in Registries
      /\ todo \in [Runners -> Lists]
  BY ExitSteps DEF ShutInv, Types
<1>2. /\ closes \in Nat
      /\ closes <= Over("signal") + Over("main") + Over("indexer") + Over("server")
  BY DEF CountInv, ClosedBy
<1>3. CASE UNCHANGED <<todo, closes>>
  BY <1>1, <1>3 DEF CountInv, ClosedBy, Over, Alone, OfMode
<1>4. ASSUME NEW r \in Runners, Begins(r) PROVE CountInv'
  <2> USE DEF Begins
  <2>1. \A q \in Runners : todo'[q] = IF q = r THEN registry ELSE todo[q]
    BY <1>1, <1>4 DEF Leave
  <2>2. OfMode' BY <1>1, <2>1, RegistryOfMode DEF CountInv, OfMode
  <2>3. Alone' BY <1>4, <2>1 DEF CountInv, Alone
  <2>4. ASSUME NEW q \in Runners PROVE Over(q)' \in {0, 1} /\ Over(q) \in {0, 1} /\ Over(q) <= Over(q)'
    BY <1>1, <1>4, <2>1, RegistryOfMode DEF Over
  <2>5. ClosedBy' BY <1>2, <1>4, <2>4 DEF ClosedBy, Runners
  <2> QED BY <2>2, <2>3, <2>5 DEF CountInv
<1>5. ASSUME NEW r \in Runners, Goes(r) PROVE CountInv'
  <2>0. PICK l : /\ todo' = [todo EXCEPT ![r] = l]
                 /\ <<todo[r], l>> \in Onward
                 /\ closes' = IF todo[r] \in Closing THEN closes + 1 ELSE closes
    BY <1>5 DEF Goes
  <2>1. \A q \in Runners : todo'[q] = IF q = r THEN l ELSE todo[q] BY <1>1, <2>0
  <2>2. /\ l \in ListsOf(mode) /\ todo[r] # Idle /\ l # Idle
        /\ todo[r] \in {<<>>, Ledger1} => l = <<>>
        /\ todo[r] \in Closing => l \in {<<>>, Ledger1} /\ todo[r] \notin {<<>>, Ledger1}
    BY <2>0, OnwardKeeps DEF CountInv, OfMode
  <2>3. OfMode' BY <1>1, <2>1, <2>2 DEF CountInv, OfMode
  <2>4. Alone' BY <2>1, <2>2 DEF CountInv, Alone
  <2>5. ASSUME NEW q \in Runners
        PROVE  /\ Over(q)' \in {0, 1} /\ Over(q) \in {0, 1} /\ Over(q) <= Over(q)'
               /\ q = r /\ todo[r] \in Closing => Over(q) = 0 /\ Over(q)' = 1
    BY <2>1, <2>2 DEF Over
  <2>6. ClosedBy'
    <3>1. CASE todo[r] \notin Closing BY <1>2, <2>0, <2>5, <3>1 DEF ClosedBy, Runners
    <3>2. CASE todo[r] \in Closing
      <4>1. closes' = closes + 1 BY <2>0, <3>2
      <4>2. Over(r) = 0 /\ Over(r)' = 1 BY <2>5, <3>2
      <4> QED BY <1>2, <2>5, <4>1, <4>2 DEF ClosedBy, Runners
    <3> QED BY <3>1, <3>2
  <2> QED BY <2>3, <2>4, <2>6 DEF CountInv
<1> QED BY <1>3, <1>4, <1>5, ExitSteps

SameEnd(s, t) ==
  /\ Len(s) <= Len(t)
  /\ \A i \in 1..Len(s) : s[(Len(s) - i) + 1] = t[(Len(t) - i) + 1]

\* A list is a suffix of another when their last elements are the same.
LEMMA SuffixOf ==
  ASSUME NEW S, NEW s \in Seq(S), NEW t \in Seq(S), SameEnd(s, t)
  PROVE  IsSuffix(s, t)
<1> USE DEF SameEnd
<1>1. Len(s) \in Nat /\ Len(t) \in Nat OBVIOUS
<1>2. /\ Reverse(s) = [i \in 1..Len(s) |-> s[(Len(s) - i) + 1]]
      /\ Reverse(t) = [i \in 1..Len(t) |-> t[(Len(t) - i) + 1]]
  BY DEF Reverse
<1>3. /\ Reverse(s) \in Seq(S) /\ Len(Reverse(s)) = Len(s)
      /\ Reverse(t) \in Seq(S) /\ Len(Reverse(t)) = Len(t)
  <2>1. \A i \in 1..Len(s) : (Len(s) - i) + 1 \in 1..Len(s) BY <1>1
  <2>2. \A i \in 1..Len(t) : (Len(t) - i) + 1 \in 1..Len(t) BY <1>1
  <2> QED BY <1>1, <1>2, <2>1, <2>2
<1> DEFINE a == Reverse(s)
           b == Reverse(t)
           n == Len(s)
<1>4. \A i \in 1..n : a[i] = b[i]
  <2>1. \A i \in 1..Len(s) : i \in 1..Len(t) BY <1>1
  <2> QED BY <1>2, <2>1
<1> HIDE DEF a, b
<1>5. SubSeq(a, 1, n) = SubSeq(b, 1, n) BY <1>1, <1>3, <1>4 DEF a, b
<1> QED BY <1>3, <1>5 DEF IsSuffix, IsPrefix, a, b

Names == {"server", "cancel", "wait", "ledger"}

\* The registries of each mode are what is set on the way to all handlers.
LEMMA AreRegistries ==
  /\ mode = "online" => /\ IsRegistry(<<>>) /\ IsRegistry(Ledger1) /\ IsRegistry(Wait2)
                        /\ IsRegistry(Cancel3) /\ IsRegistry(Cancel4)
  /\ mode = "offline" => IsRegistry(<<>>) /\ IsRegistry(Wait1) /\ IsRegistry(Server2)
<1>1. ASSUME mode = "online"
      PROVE  /\ IsRegistry(<<>>) /\ IsRegistry(Ledger1) /\ IsRegistry(Wait2)
             /\ IsRegistry(Cancel3) /\ IsRegistry(Cancel4)
  <2>1. Handlers(mode) = Cancel4 BY <1>1 DEF Handlers, Cancel4
  <2>2. /\ Cancel4 \in Seq(Names) /\ Len(Cancel4) = 4 /\ Cancel4[1] = "server"
        /\ Cancel4[2] = "cancel" /\ Cancel4[3] = "wait" /\ Cancel4[4] = "ledger"
    BY DEF Cancel4, Names
  <2>3. IsSuffix(<<>>, Cancel4)
    <3>1. <<>> \in Seq(Names) /\ Len(<<>>) = 0 /\ 1..0 = {} BY DEF Names
    <3>2. SameEnd(<<>>, Cancel4) BY <2>2, <3>1 DEF SameEnd
    <3> QED BY <2>2, <3>1, <3>2, SuffixOf
  <2>4. IsSuffix(Ledger1, Cancel4)
    <3>1. Ledger1 \in Seq(Names) /\ Len(Ledger1) = 1 /\ Ledger1[1] = "ledger" BY DEF Ledger1, Names
    <3>2. 1..1 = {1} OBVIOUS
    <3>3. SameEnd(Ledger1, Cancel4) BY <2>2, <3>1, <3>2 DEF SameEnd
    <3> QED BY <2>2, <3>1, <3>3, SuffixOf
  <2>5. IsSuffix(Wait2, Cancel4)
    <3>1. /\ Wait2 \in Seq(Names) /\ Len(Wait2) = 2 /\ Wait2[1] = "wait" /\ Wait2[2] = "ledger"
      BY DEF Wait2, Names
    <3>2. 1..2 = {1, 2} OBVIOUS
    <3>3. SameEnd(Wait2, Cancel4) BY <2>2, <3>1, <3>2 DEF SameEnd
    <3> QED BY <2>2, <3>1, <3>3, SuffixOf
  <2>6. IsSuffix(Cancel3, Cancel4)
    <3>1. /\ Cancel3 \in Seq(Names) /\ Len(Cancel3) = 3 /\ Cancel3[1] = "cancel"
          /\ Cancel3[2] = "wait" /\ Cancel3[3] = "ledger"
      BY DEF Cancel3, Names
    <3>2. 1..3 = {1, 2, 3} OBVIOUS
    <3>3. SameEnd(Cancel3, Cancel4) BY <2>2, <3>1, <3>2 DEF SameEnd
    <3> QED BY <2>2, <3>1, <3>3, SuffixOf
  <2>7. IsSuffix(Cancel4, Cancel4)
    <3>1. SameEnd(Cancel4, Cancel4) BY <2>2 DEF SameEnd
    <3> QED BY <2>2, <3>1, SuffixOf
  <2> QED BY <2>1, <2>3, <2>4, <2>5, <2>6, <2>7 DEF IsRegistry
<1>2. ASSUME mode = "offline"
      PROVE  IsRegistry(<<>>) /\ IsRegistry(Wait1) /\ IsRegistry(Server2)
  <2>1. Handlers(mode) = Server2 BY <1>2 DEF Handlers, Server2
  <2>2. Server2 \in Seq(Names) /\ Len(Server2) = 2 /\ Server2[1] = "server" /\ Server2[2] = "wait"
    BY DEF Server2, Names
  <2>3. IsSuffix(<<>>, Server2)
    <3>1. <<>> \in Seq(Names) /\ Len(<<>>) = 0 /\ 1..0 = {} BY DEF Names
    <3>2. SameEnd(<<>>, Server2) BY <2>2, <3>1 DEF SameEnd
    <3> QED BY <2>2, <3>1, <3>2, SuffixOf
  <2>4. IsSuffix(Wait1, Server2)
    <3>1. Wait1 \in Seq(Names) /\ Len(Wait1) = 1 /\ Wait1[1] = "wait" BY DEF Wait1, Names
    <3>2. 1..1 = {1} OBVIOUS
    <3>3. SameEnd(Wait1, Server2) BY <2>2, <3>1, <3>2 DEF SameEnd
    <3> QED BY <2>2, <3>1, <3>3, SuffixOf
  <2>5. IsSuffix(Server2, Server2)
    <3>1. SameEnd(Server2, Server2) BY <2>2 DEF SameEnd
    <3> QED BY <2>2, <3>1, SuffixOf
  <2> QED BY <2>1, <2>3, <2>4, <2>5 DEF IsRegistry
<1> QED BY <1>1, <1>2

\* Every goroutine in Exit or in the signal handler has handlers left to run
\* that were registered in order, and the store is closed twice at most, by the
\* signal goroutine and by the one that is in Exit (process.go 20-81).
THEOREM ShutdownTypes == Spec => []TypeOK
<1>1. Init => CountInv
  <2> SUFFICES ASSUME Init PROVE CountInv OBVIOUS
  <2>1. Idle \notin {<<>>, Ledger1} BY Different
  <2>2. \A r \in Runners : todo[r] = Idle /\ Over(r) = 0 BY <2>1 DEF Init, Over
  <2>3. Alone /\ OfMode BY <2>2 DEF Alone, OfMode, ListsOf
  <2>4. ClosedBy BY <2>2 DEF ClosedBy, Init, Runners
  <2> QED BY <2>3, <2>4 DEF CountInv
<1>2. ShutInv /\ CountInv => TypeOK
  <2> SUFFICES ASSUME ShutInv, CountInv PROVE TypeOK OBVIOUS
  <2>1. mode \in {"online", "offline"} BY DEF ShutInv, Types
  <2>2. IsRegistry(registry) /\ IsRegistry(first)
    BY <2>1, AreRegistries DEF ShutInv, Types, Beginning, Registries
  <2>3. DOMAIN todo = Runners BY DEF ShutInv, Types
  <2>4. ASSUME NEW r \in Runners
        PROVE  \/ todo[r] = Idle \/ IsRegistry(todo[r])
               \/ todo[r] # <<>> /\ Head(todo[r]) \in {"drain", "close"}
                  /\ IsRegistry(Tail(todo[r]))
    <3>1. todo[r] \in ListsOf(mode) BY DEF CountInv, OfMode
    <3>2. \A l \in {Drain4, Drain2, Close2, Close1} :
            l # <<>> /\ Head(l) \in {"drain", "close"}
      BY DEF Drain4, Drain2, Close2, Close1
    <3>3. /\ Tail(Drain4) = Cancel3 /\ Tail(Drain2) = Wait1
          /\ Tail(Close2) = Ledger1 /\ Tail(Close1) = <<>>
      BY Tails DEF Drain4, Drain2, Close2, Close1
    <3>4. CASE mode = "online" BY <3>1, <3>2, <3>3, <3>4, AreRegistries DEF ListsOf
    <3>5. CASE mode = "offline" BY <3>1, <3>2, <3>3, <3>5, AreRegistries DEF ListsOf
    <3> QED BY <2>1, <3>4, <3>5
  <2>5. closes \in 0..2
    <3>1. \A r \in Runners : Over(r) \in {0, 1} BY DEF Over
    <3>2. ~(todo["main"] = Idle) => todo["indexer"] = Idle /\ todo["server"] = Idle
      BY DEF CountInv, Alone, Runners
    <3>3. ~(todo["indexer"] = Idle) => todo["server"] = Idle
      BY DEF CountInv, Alone, Runners
    <3>4. \A r \in Runners : todo[r] = Idle => Over(r) = 0 BY Different DEF Over
    <3> QED BY <3>1, <3>2, <3>3, <3>4 DEF CountInv, ClosedBy, Runners
  <2> QED BY <2>1, <2>2, <2>3, <2>4, <2>5 DEF ShutInv, Types, TypeOK
<1> QED BY <1>1, <1>2, InductiveShut, InitShutInv, StepShutInv, StepCountInv, PTL DEF Spec

----------------------------------------------------------------------------
(* The exits that do not end.                                              *)

\* The registries an indexer may find, and the lists of a goroutine that has
\* yet to receive from done.
Set3 == {Wait2, Cancel3, Cancel4}
Waiting == Set3 \union {Idle, Drain4}

\* An exit that was begun by the indexer itself, or by a signal between the
\* setting of the store's handler and that of the indexer's.
Hopeless ==
  /\ exiting
  /\ \/ indexer = "exit"
     \/ mode = "online" /\ Has(first, "wait") /\ ~Has(first, "cancel")

\* The indexer is started between the two handlers, and returns when it is
\* cancelled: that takes a goroutine that runs the second.
Started ==
  /\ indexer # "none" => mode = "online" /\ registry \in Set3
  /\ indexer = "returned" => cancelled
  /\ ~exiting => ~ended /\ ~cancelled /\ first = <<>>

\* Nobody comes past the receive that the indexer would have to answer.
Fatal ==
  indexer = "exit" => exiting /\ ~ended /\ \A r \in Runners : todo[r] \in Waiting

\* Between the two handlers main is past what can fail, and none but the
\* signal goroutine exits: nobody cancels the indexer.
Between ==
  first = Wait2 /\ indexer # "exit" =>
    /\ exiting /\ ~ended /\ ~cancelled
    /\ main \notin {"ledger", "node", "store", "wait"}
    /\ todo["signal"] = Wait2
    /\ \A r \in Runners \ {"signal"} : todo[r] = Idle

StuckInv == Started /\ Fatal /\ Between

\* What is left of the lists that come before the receive.
LEMMA OnwardWaits ==
  /\ \A a, l : a \in Waiting /\ <<a, l>> \in Onward => a = Wait2 \/ l \in Waiting
  /\ \A l : <<Idle, l>> \notin Onward
  /\ Set3 \subseteq Waiting /\ Idle \in Waiting /\ <<>> \notin Waiting
  /\ Wait2 \notin {<<>>, Ledger1, Cancel3, Cancel4, Wait1, Server2, Idle}
BY DEF Waiting, Set3, Onward, Idle, Drain4, Drain2, Close2, Close1,
       Cancel4, Cancel3, Wait2, Ledger1, Server2, Wait1

\* The handlers of goroutine r: it comes to the receive and no further.
LEMMA HandlersStuck ==
  ASSUME ShutInv, StuckInv, NEW r \in Runners, RunHandlers(r)
  PROVE  StuckInv'
<1>1. todo \in [Runners -> Lists] /\ mode \in {"online", "offline"} BY DEF ShutInv, Types
<1>2. /\ UNCHANGED <<mode, main, registry, exiting, first, indexer>>
      /\ cancelled => cancelled'
      /\ cancelled' # cancelled => todo[r] = Cancel3
      /\ mode = "online" /\ todo[r] = Wait2 => done
      /\ \/ Goes(r) /\ ended' = ended
         \/ todo[r] = <<>> /\ todo' = todo
  <2>1. CASE OSExit(r)
    <3>1. <<>> # Wait2 BY OnwardWaits
    <3> QED BY <2>1, <3>1 DEF OSExit, exitVars, workers
  <2> QED BY <2>1, HandlerSteps DEF Spares
<1>3. exiting
  <2>1. todo[r] # Idle BY <1>2, OnwardWaits, Different DEF Goes
  <2> QED BY <2>1 DEF ShutInv, Beginning
<1>4. Started'
  <2>1. registry' \in Set3 => (registry \in Set3)' BY DEF Set3
  <2> QED BY <1>2, <1>3, <2>1 DEF StuckInv, Started
<1>5. indexer # "returned" /\ mode = "online" => todo[r] # Wait2
  BY <1>2 DEF ShutInv, Token
<1>6. Fatal'
  <2> SUFFICES ASSUME indexer = "exit"
               PROVE  ~ended' /\ \A q \in Runners : todo'[q] \in Waiting
    BY <1>2, <1>3 DEF Fatal
  <2>1. /\ ~ended /\ \A q \in Runners : todo[q] \in Waiting
        /\ mode = "online" /\ todo[r] # Wait2
    BY <1>5 DEF StuckInv, Fatal, Started
  <2>2. ended' = ended /\ Goes(r) BY <1>2, <2>1, OnwardWaits
  <2>3. PICK l : todo' = [todo EXCEPT ![r] = l] /\ <<todo[r], l>> \in Onward
    BY <2>2 DEF Goes
  <2>4. l \in Waiting BY <2>1, <2>3, OnwardWaits
  <2> QED BY <1>1, <2>1, <2>2, <2>3, <2>4
<1>7. Between'
  <2>1. ASSUME first = Wait2, indexer # "exit" PROVE FALSE
    <3>1. todo["signal"] = Wait2 /\ \A q \in Runners \ {"signal"} : todo[q] = Idle
      BY <2>1 DEF StuckInv, Between
    <3>2. r = "signal" /\ todo[r] = Wait2
      BY <1>2, <3>1, OnwardWaits, Different DEF Goes
    <3>3. mode = "online" BY <1>1, <2>1, OnwardWaits DEF ShutInv, Beginning, Registries
    <3>4. indexer = "returned" BY <1>5, <3>2, <3>3
    <3> QED BY <2>1, <3>4 DEF StuckInv, Started, Between
  <2> QED BY <1>2, <2>1 DEF Between
<1> QED BY <1>4, <1>6, <1>7 DEF StuckInv

\* Main, the indexer, the server and the start of an exit.
LEMMA OthersStuck ==
  ASSUME ShutInv, StuckInv, [Next]_vars, ~(\E r \in Runners : RunHandlers(r))
  PROVE  StuckInv'
<1> USE DEF StuckInv
<1>1. /\ mode \in {"online", "offline"} /\ todo \in [Runners -> Lists]
      /\ "signal" \in Runners /\ "indexer" \in Runners
      /\ ~exiting => \A r \in Runners : todo[r] = Idle
  BY DEF ShutInv, Types, Beginning, Runners
<1>2. Progress BY DEF ShutInv
<1>3. CASE Signal
  <2>1. /\ todo["signal"] = Idle /\ ~ended
        /\ exiting' = TRUE /\ todo' = [todo EXCEPT !["signal"] = registry]
        /\ first' = IF exiting THEN first ELSE registry
        /\ UNCHANGED <<mode, main, registry, indexer, cancelled, ended>>
    BY <1>3 DEF Signal, Leave, workers
  <2>2. Started' BY <2>1 DEF Started, Set3
  <2>3. Fatal'
    <3>1. indexer = "exit" => registry \in Waiting BY OnwardWaits DEF Started, Fatal
    <3> QED BY <1>1, <2>1, <3>1 DEF Fatal
  <2>4. Between'
    <3>1. CASE exiting BY <2>1, <3>1, OnwardWaits DEF Between
    <3>2. CASE ~exiting
      <4>1. registry = Wait2 => main \notin {"ledger", "node", "store", "wait"}
        BY <1>2, OnwardWaits DEF Progress
      <4> QED BY <1>1, <2>1, <3>2, <4>1 DEF Between, Started
    <3> QED BY <3>1, <3>2
  <2> QED BY <2>2, <2>3, <2>4
<1>4. CASE StartFails \/ (ListenFails /\ ~exiting)
  <2>1. /\ ~exiting /\ exiting' = TRUE /\ first' = registry
        /\ UNCHANGED <<mode, registry, indexer, cancelled, ended>>
    BY <1>4 DEF StartFails, ListenFails, Leave, workers
  <2>2. registry # Wait2
    BY <1>1, <1>2, <1>4, OnwardWaits DEF StartFails, ListenFails, Progress
  <2>3. Started' BY <2>1 DEF Started, Set3
  <2>4. Fatal' BY <2>1 DEF Fatal
  <2>5. Between' BY <2>1, <2>2 DEF Between, Wait2
  <2> QED BY <2>3, <2>4, <2>5
<1>5. CASE IndexerFatal
  <2>1. /\ ~ended /\ ~exiting /\ indexer = "running" /\ indexer' = "exit"
        /\ exiting' = TRUE /\ todo' = [todo EXCEPT !["indexer"] = registry]
        /\ UNCHANGED <<mode, registry, cancelled, ended>>
    BY <1>5 DEF IndexerFatal, Leave
  <2>2. registry \in Waiting BY <2>1, OnwardWaits DEF Started
  <2>3. Started' BY <2>1 DEF Started, Set3
  <2>4. Fatal' BY <1>1, <2>1, <2>2, OnwardWaits DEF Fatal
  <2>5. Between' BY <2>1 DEF Between
  <2> QED BY <2>3, <2>4, <2>5
<1>6. CASE Start \/ StartFailsExiting \/ SetServerHandler
  <2>1. UNCHANGED <<mode, exitVars, cancelled>>
    BY <1>6 DEF Start, InitLedger, InitNode, InitStore, SetStoreHandler, SpawnIndexer,
       SetCancelHandler, MakeRouter, SpawnServer, StartFailsExiting, SetServerHandler, workers
  <2>2. \/ UNCHANGED <<registry, indexer>>
        \/ indexer = "none" /\ indexer' = "none"
        \/ /\ indexer = "none" /\ indexer' = "running"
           /\ mode = "online" /\ registry' \in Set3
        \/ registry' \in {Cancel3, Cancel4} /\ indexer' = indexer
        \/ mode = "offline" /\ indexer' = indexer
    BY <1>1, <1>2, <1>6, Settings
    DEF Start, InitLedger, InitNode, InitStore, SetStoreHandler, SpawnIndexer,
        SetCancelHandler, MakeRouter, SpawnServer, StartFailsExiting, SetServerHandler,
        SetExitHandler, Progress, workers, Set3
  <2>3. Started'
    <3>1. ~exiting => ended' = ended
      BY <1>6 DEF Start, InitLedger, InitNode, InitStore, SetStoreHandler, SpawnIndexer,
         SetCancelHandler, MakeRouter, SpawnServer, StartFailsExiting, SetServerHandler
    <3> QED BY <2>1, <2>2, <3>1 DEF Started, Set3, exitVars
  <2>4. indexer = "exit" \/ main \notin {"ledger", "node", "store", "wait"} =>
          /\ ended' = ended
          /\ main' \in {"ledger", "node", "store", "wait"} => main' = main
    BY <1>2, <1>6
    DEF Start, InitLedger, InitNode, InitStore, SetStoreHandler, SpawnIndexer,
        SetCancelHandler, MakeRouter, SpawnServer, StartFailsExiting, SetServerHandler,
        Progress
  <2>5. Fatal' /\ Between' BY <2>1, <2>2, <2>4 DEF Fatal, Between, Waiting, exitVars
  <2> QED BY <2>3, <2>5
<1>7. CASE IndexerStops
  <2>1. /\ cancelled /\ indexer = "running" /\ indexer' = "returned"
        /\ UNCHANGED <<mode, main, registry, exitVars, cancelled, ended>>
    BY <1>7 DEF IndexerStops
  <2> QED BY <2>1 DEF Started, Fatal, Between, Set3, exitVars
<1>8. CASE Listen \/ (ListenFails /\ exiting) \/ RequestArrives \/ RequestEnds \/ UNCHANGED vars
  <2>1. UNCHANGED <<mode, main, registry, exitVars, indexer, cancelled, ended>>
    BY <1>8 DEF Listen, ListenFails, RequestArrives, RequestEnds, vars, exitVars
  <2> QED BY <2>1 DEF Started, Fatal, Between, Set3, Waiting, exitVars
<1> QED BY <1>3, <1>4, <1>5, <1>6, <1>7, <1>8 DEF Next

\* The exits that ExitEnds excepts are no more than those that never end: once
\* log.Fatalf was called by the indexer, or a signal has come after the
\* store's handler was set and before the indexer's, the process is never
\* gone, whatever the others do (process.go 20-36 and 66-81, main.go 229-243).
THEOREM HangsForGood == Spec => [](Hopeless => []~ended)
<1>1. Init => StuckInv
  <2> SUFFICES ASSUME Init PROVE StuckInv OBVIOUS
  <2>1. <<>> # Wait2 BY OnwardWaits
  <2> QED BY <2>1 DEF Init, StuckInv, Started, Fatal, Between
<1>2. ShutInv /\ StuckInv /\ [Next]_vars => StuckInv' BY HandlersStuck, OthersStuck
<1>3. ShutInv /\ StuckInv /\ Hopeless => ~ended
  <2> SUFFICES ASSUME ShutInv, StuckInv, Hopeless PROVE ~ended OBVIOUS
  <2>1. \A s \in Registries : mode = "online" /\ Has(s, "wait") /\ ~Has(s, "cancel")
                             => s = Wait2
    BY DEF Registries, Has, ToSet, Cancel4, Cancel3, Wait2, Ledger1
  <2> QED BY <2>1 DEF ShutInv, Beginning, StuckInv, Fatal, Between, Hopeless
<1>4. ShutInv /\ Hopeless /\ [Next]_vars => Hopeless'
  <2> SUFFICES ASSUME ShutInv, Hopeless, [Next]_vars PROVE Hopeless' OBVIOUS
  <2>1. mode' = mode BY ExitSteps
  <2>2. exiting' = TRUE /\ first' = first /\ (indexer = "exit" => indexer' = "exit")
    <3>1. ASSUME NEW r \in Runners, RunHandlers(r)
          PROVE  exiting' = exiting /\ first' = first /\ indexer' = indexer
      BY <3>1, HandlerSteps DEF Spares, OSExit, exitVars, workers
    <3>2. indexer = "exit" => main # "spawn" BY DEF ShutInv, Progress
    <3> QED BY <3>1, <3>2
        DEF Hopeless, Next, Signal, Leave, Start, InitLedger, InitNode, InitStore,
            SetStoreHandler, SpawnIndexer, SetCancelHandler, MakeRouter, SpawnServer,
            StartFails, StartFailsExiting, IndexerStops, IndexerFatal, SetServerHandler,
            Listen, ListenFails, RequestArrives, RequestEnds, vars, exitVars, workers
  <2> QED BY <2>1, <2>2 DEF Hopeless, Has
<1> QED BY <1>1, <1>2, <1>3, <1>4, InductiveShut, PTL DEF Spec
=============================================================================
