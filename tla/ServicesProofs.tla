--------------------------- MODULE ServicesProofs ---------------------------
(***************************************************************************)
(* What the services promise, for any number of queries, transactions,     *)
(* programs, accounts, owners and names, and what a transaction promises   *)
(* of its levels: each part has the inductive invariant of one service,    *)
(* which the steps of the others leave alone.                              *)
(***************************************************************************)
EXTENDS Services, FiniteSetTheorems, TLAPS

\* Each service sees a step of the whole as one of its own, or as none.
LEMMA StepsOfManager == [NextServices]_all => Manager!Next \/ UNCHANGED tm
BY DEF NextServices, Of, all

\* The same for HoneyComb.
LEMMA StepsOfQueries == [NextServices]_all => Queries!Next \/ UNCHANGED hc
BY DEF NextServices, Of, all

\* The same for AnchorProgram.
LEMMA StepsOfAnchor == [NextServices]_all => Anchor!Next \/ UNCHANGED ap
BY DEF NextServices, Of, all

\* The same for AccountSimulator.
LEMMA StepsOfSimulator == [NextServices]_all => Simulator!Next \/ UNCHANGED as
BY DEF NextServices, Of, all

\* The same for ShdwDrive.
LEMMA StepsOfStorage == [NextServices]_all => Storage!Next \/ UNCHANGED sd
BY DEF NextServices, Of, all

-----------------------------------------------------------------------------
(* HoneyComb's queries.                                                    *)

QueryCalls ==
  [query : Asked,
   args : {Queries!AddedArgs(Queries!Queries[q], given) :
             q \in Asked, given \in UNION {{{}, Queries!Queries[p].optional} : p \in Asked}}]

\* Between queries the member holds what could not be sent; while one is on the
\* wire, that and its own arguments: what makes CarriesItsOwn inductive.
QueriesInv ==
  /\ hcUnsent \in Seq(QueryCalls)
  /\ ~hcPending => hcWire = Queries!None /\ hcArgs = hcUnsent
  /\ hcWire # Queries!None =>
       /\ hcWire.method = hcMethod
       /\ hcWire.args = hcArgs
       /\ \E own \in QueryCalls : own.query = hcMethod /\ hcArgs = Append(hcUnsent, own)

-----------------------------------------------------------------------------

\* The invariant has what a query carries.
LEMMA QueriesInvHolds == QueriesInv => Queries!CarriesItsOwn
<1> SUFFICES ASSUME QueriesInv, hcWire # Queries!None
             PROVE  /\ hcWire.method = hcMethod
                    /\ hcWire.args[Len(hcWire.args)].query = hcMethod
                    /\ hcWire.args = Append(hcUnsent, hcWire.args[Len(hcWire.args)])
  BY DEF Queries!CarriesItsOwn
<1>1. PICK own \in QueryCalls : own.query = hcMethod /\ hcArgs = Append(hcUnsent, own)
  BY DEF QueriesInv
<1>2. hcArgs[Len(hcArgs)] = own
  BY <1>1 DEF QueriesInv
<1> QED
  BY <1>1, <1>2 DEF QueriesInv

\* A query appends its own call to what could not be sent.
LEMMA CallKeeps ==
  ASSUME QueriesInv, NEW query \in Asked, NEW given \in {{}, Queries!Queries[query].optional}, Queries!Call(query, given)
  PROVE  QueriesInv'
<1> DEFINE own == [query |-> query, args |-> Queries!AddedArgs(Queries!Queries[query], given)]
<1>1. own \in QueryCalls
  BY DEF QueryCalls
<1>2. /\ ~hcPending /\ hcMethod' = query
      /\ hcArgs' = Append(hcArgs, own)
      /\ Queries!SendQuery
  BY DEF Queries!Call, Queries!AddArgs
<1>3. hcUnsent \in Seq(QueryCalls) /\ hcArgs = hcUnsent /\ hcWire = Queries!None
  BY <1>2 DEF QueriesInv
<1>4. own.query = query
  OBVIOUS
<1> HIDE DEF own
<1>5. CASE Queries!CanSend
  <2>1. /\ hcWire' = [method |-> hcMethod', args |-> hcArgs']
        /\ hcPending' = TRUE /\ hcUnsent' = hcUnsent
    BY <1>2, <1>5 DEF Queries!SendQuery
  <2>2. hcWire'.method = hcMethod' /\ hcWire'.args = hcArgs'
    BY <2>1
  <2>3. own.query = hcMethod' /\ hcArgs' = Append(hcUnsent', own)
    BY <1>2, <1>3, <1>4, <2>1
  <2> QED
    BY <1>1, <1>3, <2>1, <2>2, <2>3 DEF QueriesInv
<1>6. CASE ~Queries!CanSend
  <2>1. hcPending' = FALSE /\ hcUnsent' = Append(hcUnsent, hcArgs'[Len(hcArgs')]) /\ hcWire' = Queries!None
    BY <1>2, <1>3, <1>6 DEF Queries!SendQuery
  <2>2. hcArgs'[Len(hcArgs')] = own
    BY <1>1, <1>2, <1>3
  <2>3. hcUnsent' = hcArgs' /\ hcUnsent' \in Seq(QueryCalls)
    BY <1>1, <1>2, <1>3, <2>1, <2>2
  <2> QED
    BY <2>1, <2>3 DEF QueriesInv
<1> QED
  BY <1>5, <1>6

\* No step of HoneyComb breaks its invariant.
LEMMA QueriesNext == QueriesInv /\ [NextServices]_all => QueriesInv'
<1> SUFFICES ASSUME QueriesInv, Queries!Next \/ UNCHANGED hc PROVE QueriesInv'
  BY StepsOfQueries
<1>1. CASE \E query \in Asked : \E given \in {{}, Queries!Queries[query].optional} : Queries!Call(query, given)
  BY <1>1, CallKeeps
<1>2. CASE Queries!QueryResponseCallback
  BY <1>2 DEF Queries!QueryResponseCallback, QueriesInv
<1>3. CASE Queries!SetHoneycombUrl
  BY <1>3 DEF Queries!SetHoneycombUrl, QueriesInv
<1>4. CASE Queries!EnterTree
  BY <1>4 DEF Queries!EnterTree, QueriesInv
<1>5. CASE Queries!ExitTree
  BY <1>5 DEF Queries!ExitTree, QueriesInv
<1>6. CASE UNCHANGED hc
  BY <1>6 DEF hc, QueriesInv
<1> QED
  BY <1>1, <1>2, <1>3, <1>4, <1>5, <1>6 DEF Queries!Next

-----------------------------------------------------------------------------

\* A query on the wire has the method called last and its arguments, after
\* those that could not be sent since the last response, whatever queries are
\* used.  add_arg and send_query.
THEOREM QueriesCarryTheirOwn == SpecServices => []CarriesItsOwn
<1>1. InitServices => QueriesInv
  BY DEF InitServices, Queries!Init, QueriesInv, Queries!None
<1>2. QueriesInv => CarriesItsOwn
  BY QueriesInvHolds DEF CarriesItsOwn
<1> QED
  BY <1>1, <1>2, QueriesNext, PTL DEF SpecServices

-----------------------------------------------------------------------------
(* The AccountSimulator.                                                   *)

\* The accounts asked about stay in front of those collected since, and whoever
\* is collected under a hash had the transaction: what makes SimulatedIsOwn
\* inductive.
SimulatorTypes ==
  /\ asTransaction \in [Accounts -> Hashes]
  /\ asCollected \in [Hashes -> Seq(Accounts)]
  /\ asData \in [Accounts -> UNION {{NoData}, [hash : Hashes, account : Accounts]}]
  /\ asHad \in [Accounts -> SUBSET Hashes]
  /\ asWire # Simulator!Idle =>
       /\ asWire \in [hash : Hashes, accounts : Seq(Accounts)]
       /\ asPending
       /\ asKey = asWire.hash

AskedAreInFront ==
  asWire # Simulator!Idle =>
    \A i \in DOMAIN asWire.accounts :
      i \in DOMAIN asCollected[asWire.hash] /\ asCollected[asWire.hash][i] = asWire.accounts[i]

CollectedHadIt ==
  /\ \A a \in Accounts : asTransaction[a] \in asHad[a]
  /\ \A h \in Hashes : \A i \in DOMAIN asCollected[h] : h \in asHad[asCollected[h][i]]

SimulatorInv == SimulatorTypes /\ AskedAreInFront /\ CollectedHadIt /\ Simulator!SimulatedIsOwn

-----------------------------------------------------------------------------

\* Collecting an Account appends it to one list, if at all.
LEMMA AddKeepsFront ==
  ASSUME SimulatorInv, NEW a \in Accounts
  PROVE  /\ Simulator!AddAccountToFetch(a) \in [Hashes -> Seq(Accounts)]
         /\ \A h \in Hashes : \A i \in DOMAIN asCollected[h] :
              i \in DOMAIN Simulator!AddAccountToFetch(a)[h] /\ Simulator!AddAccountToFetch(a)[h][i] = asCollected[h][i]
         /\ \A h \in Hashes : \A i \in DOMAIN Simulator!AddAccountToFetch(a)[h] : h \in asHad[Simulator!AddAccountToFetch(a)[h][i]]
<1> DEFINE t == asTransaction[a]
           new == IF Simulator!Holds(asCollected[t], a) THEN asCollected[t] ELSE Append(asCollected[t], a)
<1>1. t \in Hashes /\ t \in asHad[a] /\ asCollected \in [Hashes -> Seq(Accounts)]
  BY DEF SimulatorInv, SimulatorTypes, CollectedHadIt
<1>2. Simulator!AddAccountToFetch(a) = [asCollected EXCEPT ![t] = new]
  BY <1>1 DEF Simulator!AddAccountToFetch
<1>3. /\ new \in Seq(Accounts)
      /\ \A i \in DOMAIN asCollected[t] : i \in DOMAIN new /\ new[i] = asCollected[t][i]
      /\ \A i \in DOMAIN new : new[i] = a \/ (i \in DOMAIN asCollected[t] /\ new[i] = asCollected[t][i])
  <2>1. asCollected[t] \in Seq(Accounts)
    BY <1>1
  <2>2. CASE Simulator!Holds(asCollected[t], a)
    BY <2>1, <2>2
  <2>3. CASE ~Simulator!Holds(asCollected[t], a)
    <3>1. new = Append(asCollected[t], a)
      BY <2>3
    <3>2. QED
      BY <2>1, <3>1
  <2> QED
    BY <2>2, <2>3
<1>4. \A h \in Hashes : Simulator!AddAccountToFetch(a)[h] = IF h = t THEN new ELSE asCollected[h]
  BY <1>1, <1>2
<1>5. \A h \in Hashes : \A i \in DOMAIN asCollected[h] : h \in asHad[asCollected[h][i]]
  BY DEF SimulatorInv, CollectedHadIt
<1> HIDE DEF t, new
<1>6. Simulator!AddAccountToFetch(a) \in [Hashes -> Seq(Accounts)]
  BY <1>1, <1>2, <1>3
<1>7. \A h \in Hashes : \A i \in DOMAIN asCollected[h] :
        i \in DOMAIN Simulator!AddAccountToFetch(a)[h] /\ Simulator!AddAccountToFetch(a)[h][i] = asCollected[h][i]
  BY <1>3, <1>4
<1>8. \A h \in Hashes : \A i \in DOMAIN Simulator!AddAccountToFetch(a)[h] :
        h \in asHad[Simulator!AddAccountToFetch(a)[h][i]]
  <2> SUFFICES ASSUME NEW h \in Hashes, NEW i \in DOMAIN Simulator!AddAccountToFetch(a)[h]
               PROVE  h \in asHad[Simulator!AddAccountToFetch(a)[h][i]]
    OBVIOUS
  <2>1. CASE h = t
    <3>1. i \in DOMAIN new /\ Simulator!AddAccountToFetch(a)[h][i] = new[i]
      BY <1>1, <1>4, <2>1
    <3> QED
      BY <1>1, <1>3, <1>5, <2>1, <3>1
  <2>2. CASE h # t
    BY <1>4, <1>5, <2>2
  <2> QED
    BY <2>1, <2>2
<1> QED
  BY <1>6, <1>7, <1>8

\* What collecting leaves of the invariant, whatever else a step does to the wire.
LEMMA CollectingKeeps ==
  ASSUME SimulatorInv, NEW a \in Accounts, asCollected' = Simulator!AddAccountToFetch(a),
         UNCHANGED <<asTransaction, asData, asHad>>
  PROVE  /\ asCollected' \in [Hashes -> Seq(Accounts)]
         /\ CollectedHadIt'
         /\ Simulator!SimulatedIsOwn'
         /\ UNCHANGED asWire => AskedAreInFront'
<1>1. asCollected' \in [Hashes -> Seq(Accounts)]
  BY AddKeepsFront
<1>2. CollectedHadIt'
  BY AddKeepsFront DEF SimulatorInv, CollectedHadIt
<1>3. Simulator!SimulatedIsOwn'
  BY DEF SimulatorInv, Simulator!SimulatedIsOwn
<1>4. ASSUME UNCHANGED asWire PROVE AskedAreInFront'
  <2>1. asWire # Simulator!Idle => asWire.hash \in Hashes
    BY DEF SimulatorInv, SimulatorTypes
  <2> QED
    BY <1>4, <2>1, AddKeepsFront DEF SimulatorInv, AskedAreInFront
<1> QED
  BY <1>1, <1>2, <1>3, <1>4

-----------------------------------------------------------------------------

\* At first nobody is collected.
LEMMA SimulatorInit == Simulator!Init => SimulatorInv
<1> SUFFICES ASSUME Simulator!Init PROVE SimulatorInv
  OBVIOUS
<1>1. SimulatorTypes
  BY DEF Simulator!Init, SimulatorTypes, Simulator!Idle
<1>2. AskedAreInFront /\ CollectedHadIt /\ Simulator!SimulatedIsOwn
  BY DEF Simulator!Init, AskedAreInFront, CollectedHadIt, Simulator!SimulatedIsOwn, Simulator!Idle
<1> QED
  BY <1>1, <1>2 DEF SimulatorInv

\* Collecting appends, and an answer is for those in front.
LEMMA SimulatorNext == SimulatorInv /\ [NextServices]_all => SimulatorInv'
<1> SUFFICES ASSUME SimulatorInv, Simulator!Next \/ UNCHANGED as PROVE SimulatorInv'
  BY StepsOfSimulator
<1>1. ASSUME NEW a \in Accounts, Simulator!Collect(a) PROVE SimulatorInv'
  <2>1. asCollected' = Simulator!AddAccountToFetch(a)
        /\ UNCHANGED <<asTransaction, asPending, asKey, asWire, asData, asHad>>
    BY <1>1 DEF Simulator!Collect
  <2>2. SimulatorTypes'
    BY <2>1, CollectingKeeps DEF SimulatorInv, SimulatorTypes
  <2> QED
    BY <2>1, <2>2, CollectingKeeps DEF SimulatorInv
<1>2. ASSUME NEW a \in Accounts, Simulator!SimulateAll(a) PROVE SimulatorInv'
  <2>1. asCollected' = Simulator!AddAccountToFetch(a) /\ UNCHANGED <<asTransaction, asData, asHad>>
    BY <1>2 DEF Simulator!SimulateAll
  <2>2. CASE asPending
    <3>1. UNCHANGED <<asPending, asKey, asWire>>
      BY <1>2, <2>2 DEF Simulator!SimulateAll
    <3>2. SimulatorTypes'
      BY <2>1, <3>1, CollectingKeeps DEF SimulatorInv, SimulatorTypes
    <3> QED
      BY <2>1, <3>1, <3>2, CollectingKeeps DEF SimulatorInv
  <2>3. CASE ~asPending
    <3>1. /\ asKey' = asTransaction[a] /\ asPending' = TRUE
          /\ asWire' = [hash |-> asTransaction[a], accounts |-> asCollected'[asTransaction[a]]]
      BY <1>2, <2>3 DEF Simulator!SimulateAll
    <3>2. asTransaction[a] \in Hashes
      BY DEF SimulatorInv, SimulatorTypes
    <3>3. SimulatorTypes'
      BY <2>1, <3>1, <3>2, CollectingKeeps DEF SimulatorInv, SimulatorTypes
    <3>4. AskedAreInFront'
      BY <3>1 DEF AskedAreInFront
    <3> QED
      BY <2>1, <3>3, <3>4, CollectingKeeps DEF SimulatorInv
  <2> QED
    BY <2>2, <2>3
<1>3. CASE Simulator!FetchCallback
  <2> DEFINE now == asCollected[asKey]
             At(a) == {i \in DOMAIN asWire.accounts : i \in DOMAIN now /\ now[i] = a}
             told == [a \in Accounts |->
               IF At(a) = {} THEN asData[a]
               ELSE [hash |-> asWire.hash, account |-> asWire.accounts[CHOOSE i \in At(a) : TRUE]]]
  <2>1. /\ asWire # Simulator!Idle /\ asWire' = Simulator!Idle
        /\ asData' = told \/ asData' = asData
        /\ asCollected' = [asCollected EXCEPT ![asKey] = <<>>]
        /\ UNCHANGED <<asTransaction, asHad>>
    BY <1>3 DEF Simulator!FetchCallback
  <2>2. /\ asWire.hash \in Hashes /\ asWire.accounts \in Seq(Accounts) /\ asKey = asWire.hash
    BY <2>1 DEF SimulatorInv, SimulatorTypes
  \* A state goes to the account it is of, which had the transaction.
  <2>3. ASSUME NEW a \in Accounts, At(a) # {}
        PROVE  told[a] = [hash |-> asWire.hash, account |-> a] /\ asWire.hash \in asHad[a]
    <3>1. PICK i \in At(a) : i = CHOOSE j \in At(a) : TRUE
      BY <2>3
    <3>2. asWire.accounts[i] = a
      BY <2>1, <2>2, <3>1 DEF SimulatorInv, AskedAreInFront
    <3>3. asWire.hash \in asHad[a]
      BY <2>2, <3>1 DEF SimulatorInv, CollectedHadIt
    <3>4. told[a] = [hash |-> asWire.hash, account |-> asWire.accounts[i]]
      BY <2>3, <3>1
    <3> QED
      BY <3>2, <3>3, <3>4
  <2>4. \A a \in Accounts : At(a) = {} => told[a] = asData[a]
    OBVIOUS
  <2>5. DOMAIN told = Accounts /\ told = [a \in Accounts |-> told[a]]
    OBVIOUS
  <2>6. asData \in [Accounts -> UNION {{NoData}, [hash : Hashes, account : Accounts]}]
    BY DEF SimulatorInv, SimulatorTypes
  <2>7. told \in [Accounts -> UNION {{NoData}, [hash : Hashes, account : Accounts]}]
    <3>1. \A a \in Accounts : told[a] \in UNION {{NoData}, [hash : Hashes, account : Accounts]}
      <4> TAKE a \in Accounts
      <4>1. CASE At(a) = {}
        BY <2>4, <2>6, <4>1
      <4>2. CASE At(a) # {}
        BY <2>2, <2>3, <4>2
      <4> QED
        BY <4>1, <4>2
    <3> HIDE DEF told, At
    <3> QED
      BY <2>5, <3>1
  <2>8. Simulator!SimulatedIsOwn'
    <3> SUFFICES ASSUME NEW a \in Accounts, asData'[a] # NoData
                 PROVE  asData'[a].account = a /\ asData'[a].hash \in asHad[a]
      BY <2>1 DEF Simulator!SimulatedIsOwn
    <3>1. CASE asData'[a] = asData[a]
      BY <3>1 DEF SimulatorInv, Simulator!SimulatedIsOwn
    <3>2. CASE asData'[a] # asData[a]
      <4>1. asData' = told /\ At(a) # {}
        BY <2>1, <2>4, <3>2
      <4> QED
        BY <2>3, <4>1
    <3> QED
      BY <3>1, <3>2
  <2> HIDE DEF told, At, now
  <2>9. SimulatorTypes'
    BY <2>1, <2>2, <2>6, <2>7 DEF SimulatorInv, SimulatorTypes
  <2>10. AskedAreInFront'
    BY <2>1 DEF AskedAreInFront
  <2>11. CollectedHadIt'
    BY <2>1, <2>2 DEF SimulatorInv, SimulatorTypes, CollectedHadIt
  <2> QED
    BY <2>8, <2>9, <2>10, <2>11 DEF SimulatorInv
<1>4. ASSUME NEW a \in Accounts, NEW h \in Hashes, Simulator!Retarget(a, h) PROVE SimulatorInv'
  <2>1. /\ asTransaction' = [asTransaction EXCEPT ![a] = h]
        /\ asHad' = [asHad EXCEPT ![a] = @ \cup {h}]
        /\ UNCHANGED <<asCollected, asPending, asKey, asWire, asData>>
    BY <1>4 DEF Simulator!Retarget
  <2>2. asHad \in [Accounts -> SUBSET Hashes] /\ \A b \in Accounts : asHad[b] \subseteq asHad'[b]
    BY <2>1 DEF SimulatorInv, SimulatorTypes
  <2>3. SimulatorTypes'
    BY <2>1, <2>2 DEF SimulatorInv, SimulatorTypes
  <2>4. AskedAreInFront'
    BY <2>1 DEF SimulatorInv, AskedAreInFront
  <2>5. CollectedHadIt'
    <3>1. \A b \in Accounts : asTransaction'[b] \in asHad'[b]
      BY <2>1, <2>2 DEF SimulatorInv, SimulatorTypes, CollectedHadIt
    <3>2. \A g \in Hashes : \A i \in DOMAIN asCollected[g] : asCollected[g][i] \in Accounts
      BY DEF SimulatorInv, SimulatorTypes
    <3> QED
      BY <2>1, <2>2, <3>1, <3>2 DEF SimulatorInv, CollectedHadIt
  <2>6. Simulator!SimulatedIsOwn'
    BY <2>1, <2>2 DEF SimulatorInv, Simulator!SimulatedIsOwn
  <2> QED
    BY <2>3, <2>4, <2>5, <2>6 DEF SimulatorInv
<1>5. CASE UNCHANGED as
  BY <1>5 DEF as, SimulatorInv, SimulatorTypes, AskedAreInFront, CollectedHadIt, Simulator!SimulatedIsOwn
<1> QED
  BY <1>1, <1>2, <1>3, <1>4, <1>5 DEF Simulator!Next

-----------------------------------------------------------------------------

\* What an Account mirrors is its own state, in a simulation of a transaction
\* it had, for any number of Accounts and transactions.  fetch_callback.
THEOREM SimulationsReachTheirAccount == SpecServices => []SimulatedIsOwn
<1>1. SimulatorInv => SimulatedIsOwn
  BY DEF SimulatorInv, SimulatedIsOwn
<1>2. InitServices => SimulatorInv
  BY SimulatorInit DEF InitServices
<1> QED
  BY <1>1, <1>2, SimulatorNext, PTL DEF SpecServices

-----------------------------------------------------------------------------
(* The TransactionManager.                                                 *)

Busy(t) == tmStage[t] \in {"sign", "send", "wait"} \/ tmPoll[t] # "none" \/ tmAsked[t]

ManagerTypes ==
  /\ tmStage \in [Txs -> {"idle", "sign", "send", "wait", "done"}]
  /\ tmAsked \in [Txs -> BOOLEAN] /\ tmSigned \in [Txs -> BOOLEAN]
  /\ tmResult \in [Txs -> {"", "cancelled", "failed", "success"}]
  /\ tmPoll \in [Txs -> {"none", "timer", "check", "lost"}]
  /\ tmLevel \in [Txs -> 0 .. 3]

\* While nothing has overlapped, one transaction at most has the shared timer,
\* flag and signals; it is unsigned while it is to be signed, and told nothing
\* before it is done: what makes ToldOfItsOwn inductive.
OneIsBusy == \A t, o \in Txs : Busy(t) /\ Busy(o) => t = o

Stages ==
  \A t \in Txs :
    /\ tmStage[t] # "done" => tmResult[t] = ""
    /\ tmStage[t] = "sign" => ~tmSigned[t]
    /\ tmAsked[t] => tmStage[t] = "sign"

Alone == OneIsBusy /\ Stages /\ Manager!ToldOfItsOwn
ManagerInv == ManagerTypes /\ (tmCrossed \/ Alone)

-----------------------------------------------------------------------------

\* At first no transaction is busy.
LEMMA ManagerInit == Manager!Init => ManagerInv
<1> SUFFICES ASSUME Manager!Init PROVE ManagerInv
  OBVIOUS
<1>1. ManagerTypes
  <2>1. tmAsked \in [Txs -> BOOLEAN] /\ tmSigned \in [Txs -> BOOLEAN]
    <3>1. tmAsked = [t \in Txs |-> FALSE] /\ tmSigned = [t \in Txs |-> FALSE]
      BY DEF Manager!Init
    <3>2. FALSE \in BOOLEAN
      OBVIOUS
    <3>3. [t \in Txs |-> FALSE] \in [Txs -> BOOLEAN]
      BY <3>2
    <3> QED
      BY <3>1, <3>3, Zenon
  <2>2. tmLevel \in [Txs -> 0 .. 3]
    <3>1. tmLevel = [t \in Txs |-> 0]
      BY DEF Manager!Init
    <3> QED
      BY <3>1
  <2>3. /\ tmStage \in [Txs -> {"idle", "sign", "send", "wait", "done"}]
        /\ tmResult \in [Txs -> {"", "cancelled", "failed", "success"}]
        /\ tmPoll \in [Txs -> {"none", "timer", "check", "lost"}]
    BY DEF Manager!Init
  <2> QED
    BY <2>1, <2>2, <2>3 DEF ManagerTypes
<1>2. Alone
  BY DEF Manager!Init, Alone, OneIsBusy, Busy, Stages, Manager!ToldOfItsOwn
<1> QED
  BY <1>1, <1>2 DEF ManagerInv

\* ManagerTypes, of the actions whose functions are built anew.
LEMMA ManagerTypesKept == ASSUME ManagerTypes, Manager!Next PROVE ManagerTypes'
<1>1. ASSUME NEW t \in Txs, Manager!SignAndSend(t) PROVE ManagerTypes'
  <2>1. tmAsked' \in [Txs -> BOOLEAN]
    <3>1. tmAsked' = [tmAsked EXCEPT ![t] = t \in WalletTxs]
      BY <1>1 DEF Manager!SignAndSend
    <3>2. (t \in WalletTxs) \in BOOLEAN
      OBVIOUS
    <3> QED
      BY <3>1, <3>2 DEF ManagerTypes
  <2>2. tmSigned' \in [Txs -> BOOLEAN]
    <3>1. tmSigned' = [tmSigned EXCEPT ![t] = t \notin WalletTxs]
      BY <1>1 DEF Manager!SignAndSend
    <3> QED
      BY <3>1, Zenon DEF ManagerTypes
  <2>3. tmStage' \in [Txs -> {"idle", "sign", "send", "wait", "done"}]
    BY <1>1 DEF Manager!SignAndSend, ManagerTypes
  <2> QED
    BY <1>1, <2>1, <2>2, <2>3 DEF Manager!SignAndSend, ManagerTypes
<1>2. ASSUME NEW t \in Txs, Manager!HandleTransactionApprove(t) PROVE ManagerTypes'
  BY <1>2 DEF Manager!HandleTransactionApprove, ManagerTypes
<1>3. ASSUME NEW t \in Txs, Manager!HandleTransactionCancel(t) PROVE ManagerTypes'
  BY <1>3 DEF Manager!HandleTransactionCancel, ManagerTypes
<1>4. ASSUME NEW t \in Txs, Manager!Rejected(t) PROVE ManagerTypes'
  BY <1>4 DEF Manager!Rejected, ManagerTypes
<1>5. ASSUME NEW t \in Txs, Manager!Accepted(t) PROVE ManagerTypes'
  BY <1>5 DEF Manager!Accepted, ManagerTypes
<1>6. ASSUME NEW t \in Txs, Manager!TimerFires(t) PROVE ManagerTypes'
  <2> DEFINE resumed == [o \in Txs |-> IF o = t THEN "check"
                           ELSE IF o = tmTimer /\ tmPoll[o] = "timer" THEN "lost" ELSE tmPoll[o]]
  <2>1. resumed \in [Txs -> {"none", "timer", "check", "lost"}]
    BY DEF ManagerTypes
  <2>2. tmPoll' = resumed \/ tmPoll' = [resumed EXCEPT ![t] = "lost"]
    BY <1>6 DEF Manager!TimerFires
  <2> HIDE DEF resumed
  <2>3. tmPoll' \in [Txs -> {"none", "timer", "check", "lost"}]
    BY <2>1, <2>2
  <2> QED
    BY <1>6, <2>3, Zenon DEF Manager!TimerFires, Manager!told, ManagerTypes
<1>7. ASSUME NEW t \in Txs, NEW confirmed \in BOOLEAN, Manager!Check(t, confirmed) PROVE ManagerTypes'
  <2>1. /\ tmPoll' \in {Manager!Bereft([tmPoll EXCEPT ![t] = "none"]), [tmPoll EXCEPT ![t] = "timer"], [tmPoll EXCEPT ![t] = "none"]}
        /\ \/ UNCHANGED <<tmStage, tmResult>>
           \/ \E v \in {"success", "failed"} : Manager!Verdict(v)
        /\ UNCHANGED <<tmSigned, tmAsked, tmLevel>>
    BY <1>7 DEF Manager!Check
  <2>2. tmPoll' \in [Txs -> {"none", "timer", "check", "lost"}]
    BY <2>1 DEF Manager!Bereft, ManagerTypes
  <2>3. /\ tmStage' \in [Txs -> {"idle", "sign", "send", "wait", "done"}]
        /\ tmResult' \in [Txs -> {"", "cancelled", "failed", "success"}]
    <3>1. CASE UNCHANGED <<tmStage, tmResult>>
      BY <3>1 DEF ManagerTypes
    <3>2. ASSUME NEW v \in {"success", "failed"}, Manager!Verdict(v)
          PROVE  /\ tmStage' \in [Txs -> {"idle", "sign", "send", "wait", "done"}]
                 /\ tmResult' \in [Txs -> {"", "cancelled", "failed", "success"}]
      BY <3>2 DEF Manager!Verdict, ManagerTypes
    <3> QED
      BY <2>1, <3>1, <3>2
  <2> QED
    BY <2>1, <2>2, <2>3 DEF ManagerTypes
<1>8. ASSUME NEW t \in Txs, Manager!Advance(t) PROVE ManagerTypes'
  <2>1. /\ tmLevel[t] < 3 /\ tmLevel' = [tmLevel EXCEPT ![t] = @ + 1]
        /\ UNCHANGED <<tmStage, tmSigned, tmResult, tmAsked, tmPoll>>
    BY <1>8 DEF Manager!Advance, Manager!told
  <2>2. tmLevel[t] \in 0 .. 3
    BY DEF ManagerTypes
  <2>3. tmLevel[t] + 1 \in 0 .. 3
    BY <2>1, <2>2
  <2> QED
    BY <2>1, <2>3 DEF ManagerTypes
<1> QED
  BY <1>1, <1>2, <1>3, <1>4, <1>5, <1>6, <1>7, <1>8
     DEF Manager!Next, Manager!Respond, Manager!Status, Manager!StatusAnswered, Manager!StatusFailed, Manager!IsTransactionConfirmed

\* Every action but the first is of a transaction that is busy, and makes none.
LEMMA OneStaysBusy ==
  ASSUME Alone, \A o \in Txs : Busy(o)' => Busy(o)
  PROVE  OneIsBusy'
BY DEF Alone, OneIsBusy

\* One that begins alone is the only one that is busy.
LEMMA SignAndSendKeeps ==
  ASSUME ManagerTypes, Alone, ~tmCrossed', NEW t \in Txs, Manager!SignAndSend(t)
  PROVE  Alone'
<1>1. /\ tmStage[t] = "idle"
      /\ tmStage' = [tmStage EXCEPT ![t] = IF t \in WalletTxs THEN "sign" ELSE "send"]
      /\ tmAsked' = [tmAsked EXCEPT ![t] = t \in WalletTxs]
      /\ tmSigned' = [tmSigned EXCEPT ![t] = t \notin WalletTxs]
      /\ UNCHANGED <<tmResult, tmPoll, tmLevel>>
  BY DEF Manager!SignAndSend
<1>2. \A o \in Txs : ~Busy(o)
  BY DEF Manager!SignAndSend, Busy, ManagerTypes
<1>3. \A o \in Txs : Busy(o)' => o = t
  BY <1>1, <1>2 DEF Busy, ManagerTypes
<1>4. Stages'
  BY <1>1 DEF Alone, Stages, ManagerTypes
<1>5. Manager!ToldOfItsOwn'
  <2>1. tmResult[t] = ""
    BY <1>1 DEF Alone, Stages
  <2> QED
    BY <1>1, <2>1 DEF Alone, Manager!ToldOfItsOwn, ManagerTypes, Manager!SignAndSend
<1> QED
  BY <1>3, <1>4, <1>5 DEF Alone, OneIsBusy

\* The one approved is the one that is being signed.
LEMMA ApproveKeeps ==
  ASSUME ManagerTypes, Alone, ~tmCrossed, NEW t \in Txs, Manager!HandleTransactionApprove(t)
  PROVE  Alone'
<1>1. /\ tmAsked[t] /\ tmStage[t] = "sign"
      /\ tmAsked' = [tmAsked EXCEPT ![t] = FALSE] /\ tmSigned' = [tmSigned EXCEPT ![t] = TRUE]
      /\ tmStage' = [o \in Txs |-> IF tmStage[o] = "sign" THEN "send" ELSE tmStage[o]]
      /\ UNCHANGED <<tmResult, tmPoll, tmLevel, tmCrossed>>
  BY DEF Manager!HandleTransactionApprove, Manager!In, Alone, Stages
<1>2. OneIsBusy'
  BY <1>1, OneStaysBusy DEF Busy, ManagerTypes
<1>3. Stages'
  <2>1. \A o \in Txs : tmStage[o] = "sign" => o = t
    BY <1>1 DEF Alone, OneIsBusy, Busy
  <2> QED
    BY <1>1, <2>1 DEF Alone, Stages, ManagerTypes
<1>4. Manager!ToldOfItsOwn'
  <2>1. tmResult[t] = ""
    BY <1>1 DEF Alone, Stages
  <2> QED
    BY <1>1, <2>1 DEF Alone, Manager!ToldOfItsOwn, ManagerTypes
<1> QED
  BY <1>2, <1>3, <1>4 DEF Alone

\* So is the one refused.
LEMMA CancelKeeps ==
  ASSUME ManagerTypes, Alone, ~tmCrossed, NEW t \in Txs, Manager!HandleTransactionCancel(t)
  PROVE  Alone'
<1>1. /\ tmAsked[t] /\ tmStage[t] = "sign" /\ ~tmSigned[t]
      /\ tmAsked' = [tmAsked EXCEPT ![t] = FALSE]
      /\ tmStage' = [o \in Txs |-> IF tmStage[o] = "sign" THEN "done" ELSE tmStage[o]]
      /\ tmResult' = [o \in Txs |-> IF tmStage[o] = "sign" THEN "cancelled" ELSE tmResult[o]]
      /\ UNCHANGED <<tmSigned, tmPoll, tmLevel, tmCrossed>>
  BY DEF Manager!HandleTransactionCancel, Manager!In, Alone, Stages
<1>2. OneIsBusy'
  BY <1>1, OneStaysBusy DEF Busy, ManagerTypes
\* The one that is being signed is the one whose wallet refused.
<1>3. \A o \in Txs : tmStage[o] = "sign" => o = t
  BY <1>1 DEF Alone, OneIsBusy, Busy
<1>4. Stages'
  BY <1>1, <1>3 DEF Alone, Stages, ManagerTypes
<1>5. Manager!ToldOfItsOwn'
  BY <1>1, <1>3 DEF Alone, Manager!ToldOfItsOwn, ManagerTypes
<1> QED
  BY <1>2, <1>4, <1>5 DEF Alone

\* The answer of send is of the one that is busy.
LEMMA RespondKeeps ==
  ASSUME ManagerTypes, Alone, ~tmCrossed, NEW t \in Txs, Manager!Respond(t)
  PROVE  Alone'
<1>1. CASE Manager!Rejected(t)
  <2>1. /\ tmStage[t] = "send" /\ tmStage' = [tmStage EXCEPT ![t] = "done"]
        /\ tmResult' = [tmResult EXCEPT ![t] = "failed"]
        /\ UNCHANGED <<tmSigned, tmAsked, tmPoll, tmLevel, tmCrossed>>
    BY <1>1 DEF Manager!Rejected
  <2>2. OneIsBusy'
    BY <2>1, OneStaysBusy DEF Busy, ManagerTypes
  <2>3. Stages' /\ Manager!ToldOfItsOwn'
    BY <2>1 DEF Alone, Stages, Manager!ToldOfItsOwn, ManagerTypes
  <2> QED
    BY <2>2, <2>3 DEF Alone
<1>2. CASE Manager!Accepted(t)
  <2>1. /\ tmStage[t] = "send" /\ tmStage' = [tmStage EXCEPT ![t] = "wait"]
        /\ tmPoll' = [tmPoll EXCEPT ![t] = "timer"]
        /\ UNCHANGED <<tmSigned, tmResult, tmAsked, tmLevel, tmCrossed>>
    BY <1>2 DEF Manager!Accepted
  <2>2. OneIsBusy'
    BY <2>1, OneStaysBusy DEF Busy, ManagerTypes
  <2>3. Stages' /\ Manager!ToldOfItsOwn'
    BY <2>1 DEF Alone, Stages, Manager!ToldOfItsOwn, ManagerTypes
  <2> QED
    BY <2>2, <2>3 DEF Alone
<1> QED
  BY <1>1, <1>2 DEF Manager!Respond

\* A timer ends no stage, only the pause between two polls.
LEMMA TimerKeeps ==
  ASSUME ManagerTypes, Alone, ~tmCrossed, NEW t \in Txs, Manager!TimerFires(t)
  PROVE  Alone'
<1>1. tmPoll[t] = "timer" /\ UNCHANGED <<tmStage, tmSigned, tmResult, tmAsked, tmLevel, tmCrossed>>
  BY DEF Manager!TimerFires, Manager!told
<1>2. \A o \in Txs : tmPoll'[o] # "none" => tmPoll[o] # "none"
  BY <1>1 DEF Manager!TimerFires, ManagerTypes
<1>3. OneIsBusy'
  BY <1>1, <1>2, OneStaysBusy DEF Busy
<1>4. Stages' /\ Manager!ToldOfItsOwn'
  BY <1>1 DEF Alone, Stages, Manager!ToldOfItsOwn
<1> QED
  BY <1>3, <1>4 DEF Alone

\* A poll resumes everybody who waits, and that is the one that polls.
LEMMA CheckKeeps ==
  ASSUME ManagerTypes, Alone, ~tmCrossed, NEW t \in Txs,
         NEW confirmed \in BOOLEAN, confirmed => tmLevel[t] = Commitment[t], Manager!Check(t, confirmed)
  PROVE  Alone'
<1>1. tmPoll[t] = "check" /\ UNCHANGED <<tmSigned, tmAsked, tmWait, tmLevel, tmCrossed>>
  BY DEF Manager!Check
<1>2. \A o \in Txs : tmPoll'[o] # "none" => tmPoll[o] # "none"
  BY <1>1 DEF Manager!Check, Manager!Bereft, ManagerTypes
<1>3. CASE UNCHANGED <<tmStage, tmResult>>
  <2>1. OneIsBusy'
    BY <1>1, <1>2, <1>3, OneStaysBusy DEF Busy
  <2> QED
    BY <1>1, <1>3, <2>1 DEF Alone, Stages, Manager!ToldOfItsOwn
<1>4. CASE Manager!Verdict(IF confirmed THEN "success" ELSE "failed")
  <2> DEFINE v == IF confirmed THEN "success" ELSE "failed"
  <2>1. /\ tmStage' = [o \in Txs |-> IF tmStage[o] = "wait" THEN "done" ELSE tmStage[o]]
        /\ tmResult' = [o \in Txs |-> IF tmStage[o] = "wait" THEN v ELSE tmResult[o]]
    BY <1>4 DEF Manager!Verdict, Manager!In
  <2>2. v \in {"success", "failed"} /\ (v = "success" => tmLevel[t] = Commitment[t])
    OBVIOUS
  <2> HIDE DEF v
  \* Who waits for the verdict is the one that was polled for.
  <2>3. \A o \in Txs : tmStage[o] = "wait" => o = t
    BY <1>1 DEF Alone, OneIsBusy, Busy
  <2>4. OneIsBusy'
    BY <1>1, <1>2, <2>1, OneStaysBusy DEF Busy, ManagerTypes
  <2>5. Stages'
    BY <1>1, <2>1 DEF Alone, Stages, ManagerTypes
  <2>6. Manager!ToldOfItsOwn'
    <3>1. tmLevel[t] \in Nat /\ Commitment[t] \in Nat
      <4>1. tmLevel[t] \in 0 .. 3
        BY DEF ManagerTypes
      <4> QED
        BY <4>1, CommitmentAssumption
    <3>2. v = "success" => tmLevel[t] >= Commitment[t]
      BY <2>2, <3>1
    <3>3. v # "cancelled"
      BY <2>2
    <3> QED
      <4> SUFFICES ASSUME NEW o \in Txs, ~tmCrossed'
                   PROVE  /\ tmResult'[o] = "success" => tmLevel'[o] >= Commitment[o]
                          /\ tmResult'[o] = "cancelled" => ~tmSigned'[o]
        BY DEF Manager!ToldOfItsOwn
      <4>1. CASE tmStage[o] = "wait"
        <5>1. tmResult'[o] = v /\ o = t
          BY <2>1, <2>3, <4>1
        <5> QED
          BY <1>1, <3>2, <3>3, <5>1
      <4>2. CASE tmStage[o] # "wait"
        <5>1. tmResult'[o] = tmResult[o]
          BY <2>1, <4>2
        <5> QED
          BY <1>1, <5>1 DEF Alone, Manager!ToldOfItsOwn
      <4> QED
        BY <4>1, <4>2
  <2> QED
    BY <2>4, <2>5, <2>6 DEF Alone
<1> QED
  BY <1>3, <1>4 DEF Manager!Check

\* Levels only rise.
LEMMA AdvanceKeeps ==
  ASSUME ManagerTypes, Alone, ~tmCrossed, NEW t \in Txs, Manager!Advance(t)
  PROVE  Alone'
<1>1. /\ tmLevel' = [tmLevel EXCEPT ![t] = @ + 1]
      /\ UNCHANGED <<tmStage, tmSigned, tmResult, tmAsked, tmPoll, tmCrossed>>
  BY DEF Manager!Advance, Manager!told
<1>2. OneIsBusy' /\ Stages'
  BY <1>1 DEF Alone, OneIsBusy, Busy, Stages
<1>3. Manager!ToldOfItsOwn'
  <2>1. ASSUME NEW o \in Txs
        PROVE  tmLevel[o] \in Nat /\ tmLevel'[o] \in Nat /\ tmLevel'[o] >= tmLevel[o] /\ Commitment[o] \in Nat
    <3>1. tmLevel[o] \in 0 .. 3 /\ tmLevel \in [Txs -> 0 .. 3]
      BY DEF ManagerTypes
    <3>2. tmLevel'[o] = IF o = t THEN tmLevel[o] + 1 ELSE tmLevel[o]
      BY <1>1, <3>1
    <3> QED
      BY <3>1, <3>2, CommitmentAssumption
  <2> QED
    BY <1>1, <2>1 DEF Alone, Manager!ToldOfItsOwn
<1> QED
  BY <1>2, <1>3 DEF Alone

\* No step of the manager breaks its invariant.
LEMMA ManagerNext == ManagerInv /\ [NextServices]_all => ManagerInv'
<1> SUFFICES ASSUME ManagerInv, Manager!Next \/ UNCHANGED tm PROVE ManagerInv'
  BY StepsOfManager
<1>1. CASE UNCHANGED tm
  BY <1>1 DEF tm, ManagerInv, ManagerTypes, Alone, OneIsBusy, Busy, Stages, Manager!ToldOfItsOwn
<1>2. CASE Manager!Next
  <2> SUFFICES ASSUME ~tmCrossed' PROVE Alone'
    BY <1>2, ManagerTypesKept DEF ManagerInv
  <2> USE DEF ManagerInv
  <2>1. ASSUME NEW t \in Txs, Manager!SignAndSend(t) PROVE Alone'
    <3>1. ~tmCrossed
      BY <2>1 DEF Manager!SignAndSend
    <3> QED
      BY <2>1, <3>1, SignAndSendKeeps
  <2>2. ASSUME NEW t \in Txs, Manager!HandleTransactionApprove(t) \/ Manager!HandleTransactionCancel(t) PROVE Alone'
    <3>1. ~tmCrossed
      BY <2>2 DEF Manager!HandleTransactionApprove, Manager!HandleTransactionCancel
    <3> QED
      BY <2>2, <3>1, ApproveKeeps, CancelKeeps
  <2>3. ASSUME NEW t \in Txs, Manager!Respond(t) PROVE Alone'
    <3>1. ~tmCrossed
      BY <2>3 DEF Manager!Respond, Manager!Rejected, Manager!Accepted
    <3> QED
      BY <2>3, <3>1, RespondKeeps
  <2>4. ASSUME NEW t \in Txs, Manager!TimerFires(t) PROVE Alone'
    <3>1. ~tmCrossed
      BY <2>4 DEF Manager!TimerFires
    <3> QED
      BY <2>4, <3>1, TimerKeeps
  <2>5. ASSUME NEW t \in Txs, Manager!Status(t) PROVE Alone'
    <3>1. PICK confirmed \in BOOLEAN : Manager!Check(t, confirmed) /\ (confirmed => tmLevel[t] = Commitment[t])
      BY <2>5 DEF Manager!Status, Manager!StatusAnswered, Manager!StatusFailed, Manager!IsTransactionConfirmed
    <3>2. ~tmCrossed
      BY <3>1 DEF Manager!Check
    <3> QED
      BY <3>1, <3>2, CheckKeeps
  <2>6. ASSUME NEW t \in Txs, Manager!Advance(t) PROVE Alone'
    <3>1. ~tmCrossed
      BY <2>6 DEF Manager!Advance
    <3> QED
      BY <2>6, <3>1, AdvanceKeeps
  <2> QED
    BY <1>2, <2>1, <2>2, <2>3, <2>4, <2>5, <2>6 DEF Manager!Next
<1> QED
  BY <1>1, <1>2

-----------------------------------------------------------------------------

\* Unless transactions overlap, success is told of what has reached its level,
\* and a cancellation of what its own wallet refused, for any number of
\* transactions.  is_transaction_confirmed, on_tx_confirmed, on_tx_signed.
THEOREM VerdictsAreTrue == SpecServices => []ToldOfItsOwn
<1>1. ManagerInv => ToldOfItsOwn
  BY DEF ManagerInv, Alone, ToldOfItsOwn, Manager!ToldOfItsOwn
<1>2. InitServices => ManagerInv
  BY ManagerInit DEF InitServices
<1> QED
  BY <1>1, <1>2, ManagerNext, PTL DEF SpecServices

-----------------------------------------------------------------------------
(* The AnchorProgram.                                                      *)

\* Until the program changes under a load, what is on its way is of the pid;
\* until two fetches cross, one request at most is on its way, and while the
\* callback for an account is connected the name kept is that of the request:
\* what makes AnswersAreOwn inductive.
OfThePid == \A r \in apIdlWire : r.of = apPid
OneFetch ==
  /\ \A r, q \in apWire : r = q
  /\ \A r \in apWire : r.kind = "account" /\ "account" \in apConnected => apName = r
AnchorInv ==
  /\ ~apRepointed => OfThePid
  /\ ~apCrossed => OneFetch
  /\ Anchor!AnswersAreOwn

\* At first nothing is loaded or fetched.
LEMMA AnchorInit == Anchor!Init => AnchorInv
BY DEF Anchor!Init, Anchor!NoAnswer, AnchorInv, OfThePid, OneFetch, Anchor!AnswersAreOwn

\* A step of one half of the node leaves the other alone.
LEMMA LoadsLeaveFetches ==
  ASSUME AnchorInv, UNCHANGED Anchor!fetchVars
  PROVE  /\ ~apCrossed' => OneFetch'
         /\ ~apCrossed' => apFetched'.asked = apFetched'.of
BY DEF AnchorInv, Anchor!fetchVars, OneFetch, Anchor!AnswersAreOwn

\* And the other way round.
LEMMA FetchesLeaveLoads ==
  ASSUME AnchorInv, UNCHANGED Anchor!idlVars
  PROVE  /\ ~apRepointed' => OfThePid'
         /\ apTry' /\ ~apRepointed' => apIdl' = apPid'
BY DEF AnchorInv, Anchor!idlVars, OfThePid, Anchor!AnswersAreOwn

\* Loading an IDL, from pid to answer.
LEMMA LoadKeeps ==
  ASSUME AnchorInv,
         \/ \E p \in Programs : Anchor!SetPid(p)
         \/ Anchor!LoadFromPid
         \/ Anchor!StopLoading
         \/ \E r \in apIdlWire : Anchor!IdlFromPidCallback(r) \/ Anchor!IdlNotFound(r)
  PROVE  AnchorInv'
<1>1. UNCHANGED Anchor!fetchVars
  BY DEF Anchor!SetPid, Anchor!LoadFromPid, Anchor!StopLoading, Anchor!IdlFromPidCallback,
         Anchor!IdlNotFound
<1>2. ASSUME ~apRepointed'
      PROVE  /\ OfThePid'
             /\ apTry' => apIdl' = apPid'
  <2>1. ASSUME NEW p \in Programs, Anchor!SetPid(p) PROVE OfThePid' /\ ~apTry'
    BY <1>2, <2>1 DEF Anchor!SetPid, OfThePid
  <2>2. CASE Anchor!LoadFromPid
    BY <1>2, <2>2 DEF Anchor!LoadFromPid, Anchor!Request, AnchorInv, OfThePid
  <2>3. CASE Anchor!StopLoading
    BY <1>2, <2>3 DEF Anchor!StopLoading, AnchorInv, OfThePid
  <2>4. ASSUME NEW r \in apIdlWire, Anchor!IdlFromPidCallback(r)
        PROVE  OfThePid' /\ (apTry' => apIdl' = apPid')
    <3>1. ~apRepointed /\ apPid' = apPid
      BY <1>2, <2>4 DEF Anchor!IdlFromPidCallback
    <3>2. OfThePid /\ (apTry => apIdl = apPid)
      BY <3>1 DEF AnchorInv, Anchor!AnswersAreOwn
    <3>3. CASE r.kind = "program"
      BY <2>4, <3>1, <3>2, <3>3 DEF Anchor!IdlFromPidCallback, Anchor!Request, OfThePid
    <3>4. CASE r.kind # "program"
      BY <2>4, <3>1, <3>2, <3>4 DEF Anchor!IdlFromPidCallback, OfThePid
    <3> QED
      BY <3>3, <3>4
  <2>5. ASSUME NEW r \in apIdlWire, Anchor!IdlNotFound(r)
        PROVE  OfThePid' /\ (apTry' => apIdl' = apPid')
    BY <1>2, <2>5 DEF Anchor!IdlNotFound, AnchorInv, OfThePid, Anchor!AnswersAreOwn
  <2> QED
    BY <2>1, <2>2, <2>3, <2>4, <2>5
<1> QED
  BY <1>1, <1>2, LoadsLeaveFetches DEF AnchorInv, Anchor!AnswersAreOwn

\* A fetch that crosses no other is the only one.
LEMMA FetchKeeps ==
  ASSUME AnchorInv, NEW request, Anchor!Fetch(request),
         request.kind = "account" => apName' = request
  PROVE  AnchorInv'
<1>1. /\ apWire' = apWire \cup {request}
      /\ apCrossed' = (apCrossed \/ apWire # {})
      /\ apFetched' = apFetched
      /\ UNCHANGED Anchor!idlVars
  BY DEF Anchor!Fetch
<1>2. ASSUME ~apCrossed' PROVE OneFetch' /\ apFetched'.asked = apFetched'.of
  <2>1. ~apCrossed /\ apWire' = {request}
    BY <1>1, <1>2
  <2> QED
    BY <1>1, <2>1 DEF OneFetch, AnchorInv, Anchor!AnswersAreOwn
<1> QED
  BY <1>1, <1>2, FetchesLeaveLoads DEF AnchorInv, Anchor!AnswersAreOwn

\* The answer of a fetch is of the name that is kept.
LEMMA AnswerKeeps ==
  ASSUME AnchorInv, NEW r \in apWire, Anchor!Fetched(r) \/ Anchor!FetchFailed(r)
  PROVE  AnchorInv'
<1>1. /\ apWire' = apWire \ {r} /\ apConnected' = {} /\ apCrossed' = apCrossed
      /\ UNCHANGED Anchor!idlVars
  BY DEF Anchor!Fetched, Anchor!FetchFailed
<1>2. ASSUME ~apCrossed' PROVE OneFetch' /\ apFetched'.asked = apFetched'.of
  <2>1. OneFetch /\ apFetched.asked = apFetched.of
    BY <1>1, <1>2 DEF AnchorInv, Anchor!AnswersAreOwn
  <2>2. OneFetch'
    BY <1>1, <2>1 DEF OneFetch
  \* The name kept is that of the request that is answered.
  <2>3. CASE Anchor!Fetched(r) /\ "account" \in apConnected /\ r.kind = "account"
    <3>1. apFetched' = [asked |-> apName, of |-> r]
      BY <2>3 DEF Anchor!Fetched
    <3>2. apName = r
      BY <2>1, <2>3 DEF OneFetch
    <3> QED
      BY <2>2, <3>1, <3>2
  <2>4. CASE ~(Anchor!Fetched(r) /\ "account" \in apConnected /\ r.kind = "account")
    <3>1. apFetched' = apFetched
      BY <2>4 DEF Anchor!Fetched, Anchor!FetchFailed
    <3> QED
      BY <2>1, <2>2, <3>1
  <2> QED
    BY <2>3, <2>4
<1> QED
  BY <1>1, <1>2, FetchesLeaveLoads DEF AnchorInv, Anchor!AnswersAreOwn

\* No step of AnchorProgram breaks its invariant.
LEMMA AnchorNext == AnchorInv /\ [NextServices]_all => AnchorInv'
<1> SUFFICES ASSUME AnchorInv, Anchor!Next \/ UNCHANGED ap PROVE AnchorInv'
  BY StepsOfAnchor
<1>1. ASSUME NEW name \in Names, NEW key \in Keys, Anchor!FetchAccount(name, key) PROVE AnchorInv'
  BY <1>1, FetchKeeps DEF Anchor!FetchAccount
<1>2. ASSUME NEW name \in Names, Anchor!FetchAllAccounts(name) PROVE AnchorInv'
  BY <1>2, FetchKeeps DEF Anchor!FetchAllAccounts
<1>3. CASE Anchor!Answer
  BY <1>3, AnswerKeeps DEF Anchor!Answer
<1>4. CASE UNCHANGED ap
  BY <1>4 DEF ap, AnchorInv, OfThePid, OneFetch, Anchor!AnswersAreOwn
<1> QED
  BY <1>1, <1>2, <1>3, <1>4, LoadKeeps DEF Anchor!Next

\* The IDL an AnchorProgram has loaded is that of its pid, and an account it
\* emits is the one asked for, unless the pid changed under a load or two
\* fetches crossed, for any number of programs, accounts and requests.
\* extract_idl_from_data, fetch_account_callback.
THEOREM AnchorAnswersAreOwn == SpecServices => []AnswersAreOwn
<1>1. AnchorInv => AnswersAreOwn
  BY DEF AnchorInv, AnswersAreOwn
<1>2. InitServices => AnchorInv
  BY AnchorInit DEF InitServices
<1> QED
  BY <1>1, <1>2, AnchorNext, PTL DEF SpecServices

-----------------------------------------------------------------------------
(* The ShdwDrive.                                                          *)

Creations == [owner : Owners, name : StorageNames \cup {NoName}, seed : Nat]

StorageTypes ==
  /\ sdOwner \in Owners /\ sdName \in StorageNames \cup {NoName}
  /\ sdInfo \subseteq Owners
  /\ \A r \in sdInfoWire : r.of \in Owners
  /\ sdInstructions \in Seq(Creations)

\* Until calls cross, the user info on its way is that of the present owner,
\* and a creation that waits for it is the one asked for.
OneCall ==
  /\ \A r \in sdInfoWire : r.of = sdOwner
  /\ "create" \in sdOnInfo => <<sdOwner, sdName>> \in sdAsked

CreatedAsAsked ==
  \A i \in DOMAIN sdInstructions :
    /\ <<sdInstructions[i].owner, sdInstructions[i].name>> \in sdAsked
    /\ sdNew \/ sdInstructions[i].seed = Len(Stored[sdInstructions[i].owner])

\* Until keys are mixed, those asked about are those kept, the names are theirs,
\* and what was told is so: with OneCall, what makes CreationsAreAsked inductive.
OfTheName(key, name) == Storage!Exists(key) /\ Stored[key[1]][key[2] + 1] = name

KeysKept ==
  /\ \A r \in sdListWire : r.keys = sdKeys
  /\ \A i \in DOMAIN sdNames : i \in DOMAIN sdKeys /\ OfTheName(sdKeys[i], sdNames[i])

ToldAsStored == \A told \in sdFetched : OfTheName(told.key, told.name)

StorageInv ==
  /\ StorageTypes
  /\ ~sdCrossed => OneCall /\ CreatedAsAsked
  /\ ~sdMixed => KeysKept /\ ToldAsStored

\* At first nothing is asked about.
LEMMA StorageInit == Storage!Init => StorageInv
BY DEF Storage!Init, StorageInv, StorageTypes, OneCall, CreatedAsAsked, KeysKept, ToldAsStored

\* What find returns has the name it was asked for.
LEMMA FoundOfTheName ==
  ASSUME NEW names, NEW keys, NEW name,
         \A i \in DOMAIN names : i \in DOMAIN keys /\ OfTheName(keys[i], names[i])
  PROVE  \A told \in Storage!Found(names, keys, name) : OfTheName(told.key, told.name)
<1> SUFFICES ASSUME NEW told \in Storage!Found(names, keys, name)
             PROVE  OfTheName(told.key, told.name)
  OBVIOUS
<1>1. PICK i \in DOMAIN names : names[i] = name /\ told = [name |-> name, key |-> keys[i]]
  BY DEF Storage!Found
<1>2. told.name = name /\ told.key = keys[i]
  BY <1>1
<1> QED
  BY <1>1, <1>2

-----------------------------------------------------------------------------

\* The three calls: the lists stay, and so does what was told but for a name found.
LEMMA CallingKeeps ==
  ASSUME StorageInv, NEW o \in Owners, NEW handler \in {"create", "list"},
         Storage!FetchUserInfo(o, handler),
         sdName' \in StorageNames \cup {NoName}, sdAsked \subseteq sdAsked',
         handler = "create" => <<o, sdName'>> \in sdAsked',
         UNCHANGED <<sdInfo, sdNew, sdListWire, sdKeys, sdNames, sdInstructions, sdFetched, sdMixed>>
  PROVE  StorageInv'
<1>1. /\ sdOwner' = o
      /\ sdCrossed' = (sdCrossed \/ sdOnInfo # {} \/ sdInfoWire # {})
      /\ sdOnInfo' = sdOnInfo \cup {handler}
      /\ sdInfoWire' = sdInfoWire \cup {[of |-> o, id |-> sdCalls]}
  BY DEF Storage!FetchUserInfo, Storage!Call
<1>2. StorageTypes'
  BY <1>1 DEF StorageInv, StorageTypes
<1>3. ASSUME ~sdCrossed' PROVE OneCall' /\ CreatedAsAsked'
  <2>1. /\ sdOnInfo' = {handler} /\ sdInfoWire' = {[of |-> o, id |-> sdCalls]}
        /\ CreatedAsAsked
    BY <1>1, <1>3 DEF StorageInv
  <2>2. OneCall'
    BY <1>1, <2>1 DEF OneCall
  <2>3. CreatedAsAsked'
    BY <2>1 DEF CreatedAsAsked
  <2> QED
    BY <2>2, <2>3
<1>4. ASSUME ~sdMixed' PROVE KeysKept' /\ ToldAsStored'
  BY <1>4 DEF StorageInv, KeysKept, ToldAsStored
<1> QED
  BY <1>2, <1>3, <1>4 DEF StorageInv

\* A call that returns at once leaves an owner and a name that nobody waits for, or
\* crosses the call that does.
LEMMA RefusedKeeps ==
  ASSUME StorageInv, NEW o \in Owners, Storage!Call(o), sdName' \in StorageNames \cup {NoName},
         UNCHANGED <<sdInfo, sdNew, sdOnInfo, sdInfoWire, sdListWire, sdKeys, sdNames, sdInstructions,
                     sdFetched, sdAsked, sdMixed>>
  PROVE  StorageInv'
<1>1. sdOwner' = o /\ sdCrossed' = (sdCrossed \/ sdOnInfo # {} \/ sdInfoWire # {})
  BY DEF Storage!Call
<1>2. StorageTypes'
  BY <1>1 DEF StorageInv, StorageTypes
<1>3. ASSUME ~sdCrossed' PROVE OneCall' /\ CreatedAsAsked'
  <2>1. sdOnInfo' = {} /\ sdInfoWire' = {} /\ CreatedAsAsked
    BY <1>1, <1>3 DEF StorageInv
  <2> QED
    BY <2>1 DEF OneCall, CreatedAsAsked
<1>4. ASSUME ~sdMixed' PROVE KeysKept' /\ ToldAsStored'
  BY <1>4 DEF StorageInv, KeysKept, ToldAsStored
<1> QED
  BY <1>2, <1>3, <1>4 DEF StorageInv

\* A name that is known is told at once, with the key beside it.
LEMMA NameFoundKeeps ==
  ASSUME StorageInv, NEW name \in StorageNames,
         sdFetched' = Storage!Found(sdNames, sdKeys, name),
         UNCHANGED <<sdOwner, sdName, sdInfo, sdNew, sdOnInfo, sdInfoWire, sdKeys, sdNames,
                     sdListWire, sdInstructions, sdAsked, sdCrossed, sdMixed>>
  PROVE  StorageInv'
<1>1. StorageTypes'
  BY DEF StorageInv, StorageTypes
<1>2. ASSUME ~sdCrossed' PROVE OneCall' /\ CreatedAsAsked'
  BY <1>2 DEF StorageInv, OneCall, CreatedAsAsked
<1>3. ASSUME ~sdMixed' PROVE KeysKept' /\ ToldAsStored'
  <2>1. KeysKept
    BY <1>3 DEF StorageInv
  <2>2. \A told \in Storage!Found(sdNames, sdKeys, name) : OfTheName(told.key, told.name)
    BY <2>1, FoundOfTheName DEF KeysKept
  <2> QED
    BY <2>1, <2>2 DEF KeysKept, ToldAsStored
<1> QED
  BY <1>1, <1>2, <1>3 DEF StorageInv

\* The seed is the counter of the info last decoded, or 0 of a new owner.
LEMMA UserInfoKeeps ==
  ASSUME StorageInv, NEW r \in sdInfoWire, Storage!UserInfoCallback(r)
  PROVE  StorageInv'
<1> DEFINE created == [owner |-> sdOwner, name |-> sdName,
                       seed |-> IF sdNew' THEN 0 ELSE Storage!Counter(sdInfo')]
<1>1. /\ sdInfoWire' = sdInfoWire \ {r} /\ sdOnInfo' = {}
      /\ IF Stored[r.of] # <<>> THEN sdInfo' = {r.of} /\ sdNew' = sdNew
                                ELSE sdNew' = TRUE /\ sdInfo' = sdInfo
      /\ sdInstructions' = IF "create" \in sdOnInfo THEN Append(sdInstructions, created)
                                                   ELSE sdInstructions
      /\ UNCHANGED <<sdOwner, sdName, sdFetched, sdAsked, sdCrossed>>
  BY DEF Storage!UserInfoCallback, Storage!InitializeAccount
<1>2. r.of \in Owners /\ sdInfo' \subseteq Owners
  BY <1>1 DEF StorageInv, StorageTypes
<1>3. created.owner = sdOwner /\ created.name = sdName
  OBVIOUS
<1>4. created \in Creations
  <2>1. Storage!Counter(sdInfo') \in Nat
    <3>1. CASE sdInfo' = {}
      BY <3>1 DEF Storage!Counter
    <3>2. CASE sdInfo' # {}
      <4>1. PICK o \in sdInfo' : o = CHOOSE q \in sdInfo' : TRUE
        BY <3>2
      <4>2. Storage!Counter(sdInfo') = Len(Stored[o])
        BY <3>2, <4>1 DEF Storage!Counter
      <4> QED
        BY <1>2, <4>1, <4>2, StoredAssumption
    <3> QED
      BY <3>1, <3>2
  <2> QED
    BY <2>1 DEF Creations, StorageInv, StorageTypes
<1>5. sdNew' \/ created.seed = Len(Stored[r.of])
  <2> SUFFICES ASSUME ~sdNew' PROVE created.seed = Len(Stored[r.of])
    OBVIOUS
  <2>1. sdInfo' = {r.of}
    BY <1>1
  <2>2. Storage!Counter(sdInfo') = Len(Stored[r.of])
    BY <2>1 DEF Storage!Counter
  <2> QED
    BY <2>2
<1> HIDE DEF created
<1>6. StorageTypes'
  BY <1>1, <1>2, <1>4 DEF StorageInv, StorageTypes
<1>7. ASSUME ~sdCrossed' PROVE OneCall' /\ CreatedAsAsked'
  <2>1. OneCall /\ CreatedAsAsked /\ r.of = sdOwner
    BY <1>1, <1>7 DEF StorageInv, OneCall
  <2>2. OneCall'
    BY <1>1, <2>1 DEF OneCall
  <2>3. CASE "create" \in sdOnInfo
    <3>1. /\ sdInstructions' = Append(sdInstructions, created)
          /\ <<created.owner, created.name>> \in sdAsked'
          /\ sdNew' \/ created.seed = Len(Stored[created.owner])
      BY <1>1, <1>3, <1>5, <2>1, <2>3 DEF OneCall
    <3>2. ASSUME NEW i \in DOMAIN sdInstructions'
          PROVE  \/ sdInstructions'[i] = created
                 \/ i \in DOMAIN sdInstructions /\ sdInstructions'[i] = sdInstructions[i]
      <4>1. sdInstructions \in Seq(Creations)
        BY DEF StorageInv, StorageTypes
      <4> QED
        BY <1>4, <3>1, <3>2, <4>1
    <3> QED
      BY <1>1, <2>1, <2>2, <3>1, <3>2 DEF CreatedAsAsked
  <2>4. CASE "create" \notin sdOnInfo
    BY <1>1, <2>1, <2>2, <2>4 DEF CreatedAsAsked
  <2> QED
    BY <2>3, <2>4
<1>8. ASSUME ~sdMixed' PROVE KeysKept' /\ ToldAsStored'
  <2>1. CASE "list" \in sdOnInfo
    <3>1. /\ sdNames' = <<>>
          /\ sdListWire' = sdListWire \cup {[keys |-> sdKeys', id |-> r.id]}
          /\ sdMixed' = (sdMixed \/ sdListWire # {})
      BY <2>1 DEF Storage!UserInfoCallback
    <3>2. ~sdMixed /\ sdListWire' = {[keys |-> sdKeys', id |-> r.id]}
      BY <1>8, <3>1
    <3> QED
      BY <1>1, <3>1, <3>2 DEF StorageInv, KeysKept, ToldAsStored
  <2>2. CASE "list" \notin sdOnInfo
    <3>1. UNCHANGED <<sdNames, sdKeys, sdListWire, sdMixed>>
      BY <2>2 DEF Storage!UserInfoCallback, Storage!lists
    <3> QED
      BY <1>1, <1>8, <3>1 DEF StorageInv, KeysKept, ToldAsStored
  <2> QED
    BY <2>1, <2>2
<1> QED
  BY <1>6, <1>7, <1>8 DEF StorageInv

\* The answer is of the keys that are kept.
LEMMA StorageAccountsKeep ==
  ASSUME StorageInv, NEW r \in sdListWire, Storage!StorageAccountsCallback(r)
  PROVE  StorageInv'
<1>1. /\ \A i \in DOMAIN r.keys : Storage!Exists(r.keys[i])
      /\ sdNames' = [i \in DOMAIN sdKeys |->
           IF i \in DOMAIN r.keys THEN Stored[r.keys[i][1]][r.keys[i][2] + 1] ELSE NoName]
      /\ sdFetched' = UNION {Storage!Found(sdNames', sdKeys, name) : name \in sdWaiting}
      /\ sdListWire' = sdListWire \ {r}
      /\ UNCHANGED <<sdOwner, sdName, sdInfo, sdNew, sdOnInfo, sdInfoWire, sdKeys, sdInstructions,
                     sdAsked, sdCrossed, sdMixed>>
  BY DEF Storage!StorageAccountsCallback
<1>2. StorageTypes'
  BY <1>1 DEF StorageInv, StorageTypes
<1>3. ASSUME ~sdCrossed' PROVE OneCall' /\ CreatedAsAsked'
  BY <1>1, <1>3 DEF StorageInv, OneCall, CreatedAsAsked
<1>4. ASSUME ~sdMixed' PROVE KeysKept' /\ ToldAsStored'
  <2>1. KeysKept /\ r.keys = sdKeys
    BY <1>1, <1>4 DEF StorageInv, KeysKept
  <2>2. \A i \in DOMAIN sdNames' : i \in DOMAIN sdKeys /\ OfTheName(sdKeys[i], sdNames'[i])
    BY <1>1, <2>1 DEF OfTheName
  <2>3. KeysKept'
    BY <1>1, <2>1, <2>2 DEF KeysKept
  <2>4. ASSUME NEW told \in sdFetched' PROVE OfTheName(told.key, told.name)
    <3>1. PICK name \in sdWaiting : told \in Storage!Found(sdNames', sdKeys, name)
      BY <1>1, <2>4
    <3> QED
      BY <2>2, <3>1, FoundOfTheName
  <2> QED
    BY <2>3, <2>4 DEF ToldAsStored
<1> QED
  BY <1>2, <1>3, <1>4 DEF StorageInv

\* No step of ShdwDrive breaks its invariant.
LEMMA StorageNext == StorageInv /\ [NextServices]_all => StorageInv'
<1> SUFFICES ASSUME StorageInv, Storage!Next \/ UNCHANGED sd PROVE StorageInv'
  BY StepsOfStorage
<1>1. ASSUME NEW o \in Owners, NEW name \in StorageNames, NEW sized \in BOOLEAN,
             Storage!CreateStorageAccount(o, name, sized)
      PROVE  StorageInv'
  <2>1. CASE sized
    BY <1>1, <2>1, CallingKeeps DEF Storage!CreateStorageAccount, Storage!lists
  <2>2. CASE ~sized
    BY <1>1, <2>2, RefusedKeeps DEF Storage!CreateStorageAccount, Storage!lists
  <2> QED
    BY <2>1, <2>2
<1>2. ASSUME NEW o \in Owners, NEW name \in StorageNames, Storage!FetchStorageKeyByName(o, name)
      PROVE  StorageInv'
  <2>1. UNCHANGED <<sdName, sdInfo, sdNew, sdListWire, sdKeys, sdNames, sdInstructions, sdAsked, sdMixed>>
    BY <1>2 DEF Storage!FetchStorageKeyByName, Storage!lists
  <2>2. CASE Storage!Found(sdNames, sdKeys, name) # {}
    BY <1>2, <2>1, <2>2, NameFoundKeeps DEF Storage!FetchStorageKeyByName
  <2>3. CASE Storage!Found(sdNames, sdKeys, name) = {}
    <3>1. Storage!FetchUserInfo(o, "list") /\ sdFetched' = sdFetched
      BY <1>2, <2>3 DEF Storage!FetchStorageKeyByName
    <3>2. sdName' \in StorageNames \cup {NoName}
      BY <2>1 DEF StorageInv, StorageTypes
    <3> QED
      BY <2>1, <3>1, <3>2, CallingKeeps
  <2> QED
    BY <2>2, <2>3
<1>3. ASSUME NEW o \in Owners, Storage!GetAllStorageAccounts(o) PROVE StorageInv'
  <2>1. sdName' \in StorageNames \cup {NoName}
    BY <1>3 DEF Storage!GetAllStorageAccounts, StorageInv, StorageTypes
  <2> QED
    BY <1>3, <2>1, CallingKeeps DEF Storage!GetAllStorageAccounts, Storage!lists
<1>4. ASSUME NEW r \in sdInfoWire, Storage!UserInfoFailed(r) PROVE StorageInv'
  BY <1>4 DEF Storage!UserInfoFailed, Storage!lists, StorageInv, StorageTypes, OneCall,
              CreatedAsAsked, KeysKept, ToldAsStored
<1>5. ASSUME NEW r \in sdListWire, Storage!StorageAccountsFailed(r) PROVE StorageInv'
  BY <1>5 DEF Storage!StorageAccountsFailed, Storage!lists, StorageInv, StorageTypes, OneCall,
              CreatedAsAsked, KeysKept, ToldAsStored
<1>6. CASE UNCHANGED sd
  BY <1>6 DEF sd, StorageInv, StorageTypes, OneCall, CreatedAsAsked, KeysKept, ToldAsStored
<1> QED
  BY <1>1, <1>2, <1>3, <1>4, <1>5, <1>6, UserInfoKeeps, StorageAccountsKeep DEF Storage!Next

\* Every creation a ShdwDrive makes was asked for, with the seed of its owner's
\* counter, unless calls crossed, and a key it tells is that of a storage of the
\* name, unless keys were mixed, for any number of owners and storages.
\* create_storage_account to initialize_account, get_multiple_accounts_callback.
THEOREM StorageCreatesWhatIsAsked == SpecServices => []CreationsAreAsked
<1>1. StorageInv => CreationsAreAsked
  BY DEF StorageInv, CreatedAsAsked, ToldAsStored, OfTheName, CreationsAreAsked,
         Storage!CreationsAreAsked
<1>2. InitServices => StorageInv
  BY StorageInit DEF InitServices
<1> QED
  BY <1>1, <1>2, StorageNext, PTL DEF SpecServices

-----------------------------------------------------------------------------
(* Confirmation of transactions, one or more after another, which is a      *)
(* behaviour of its own.                                                   *)

Told(x) == subs[x] + node.heard[x]

ConfirmationTypes ==
  /\ tx \in [result : {0} \cup Sigs, connections : [Levels -> 0 .. 2], sending : BOOLEAN, active : Int]
  /\ prog \in [waits : [Levels -> {0} \cup Sigs], handlers : SUBSET Levels, edited : BOOLEAN,
              crossed : SUBSET Levels, dropped : SUBSET Levels]
  /\ subs \in [Subscriptions -> Nat]
  /\ node \in [sends : {0} \cup Sigs, wire : SUBSET Sigs, accepted : SUBSET Sigs, reached : [Sigs -> 0 .. 3],
               heard : [Subscriptions -> Nat]]

\* A send is answered once: it is out, or the transaction was told it is accepted, or
\* neither, and a signature is held of those it was told of and never over an edit.
SignatureIsAccepted ==
  /\ \A s \in node.wire \cup node.accepted : s <= node.sends
  /\ node.wire \cap node.accepted = {}
  /\ tx.result # 0 => tx.result \in node.accepted
  /\ prog.edited => tx.result = 0

\* Nobody has subscribed to a signature the transaction was not told of.
UnknownIsUntold ==
  \A x \in Subscriptions : x[2] \notin node.accepted => Told(x) = 0

\* Of the signature that is held, the levels subscribed to are those whose
\* connections were counted: what makes ToldOnce inductive.
ToldIsConnected ==
  \A x \in Subscriptions : tx.result = x[2] /\ Told(x) # 0 => tx.connections[x[1]] # 0

ConfirmationInv == ConfirmationTypes /\ SignatureIsAccepted /\ UnknownIsUntold /\ ToldIsConnected /\ ToldOnce
-----------------------------------------------------------------------------

\* A level has the program's function, its coroutine, both or none.
LEMMA ConnectionsType == ConfirmationTypes => \A l \in Levels : Connections(l) \in 0 .. 2
BY DEF ConfirmationTypes, Connections

\* There are three levels at most.
LEMMA LevelsAreFinite == ASSUME NEW ls \in SUBSET Levels PROVE Cardinality(ls) \in Nat
<1>1. IsFiniteSet(1 .. 3)
  <2>1. 1 \in Int /\ 3 \in Int
    OBVIOUS
  <2> QED
    BY <2>1, FS_Interval, Zenon
<1>2. ls \in SUBSET (1 .. 3)
  BY Assumption
<1>3. IsFiniteSet(ls)
  BY <1>1, <1>2, FS_Subset
<1> QED
  BY <1>3, FS_CardinalityType

\* What is counted of a subscription is a number.
LEMMA ToldType == ASSUME ConfirmationTypes, NEW x \in Subscriptions PROVE subs[x] \in Nat /\ node.heard[x] \in Nat /\ Told(x) \in Nat
BY DEF ConfirmationTypes, Told

\* Subscribing to levels nobody was told of yet tells nobody twice.
LEMMA SubscribeTells ==
  ASSUME ConfirmationTypes, NEW t, NEW ls \in SUBSET Levels, Subscribe(t, ls), UNCHANGED node
  PROVE  /\ subs' \in [Subscriptions -> Nat]
         /\ \A x \in Subscriptions :
              Told(x)' = Told(x) + IF x[1] \in ls /\ x[2] = t.result THEN 1 ELSE 0
<1>1. subs' = [x \in Subscriptions |-> subs[x] + IF x[1] \in ls /\ x[2] = t.result THEN 1 ELSE 0]
  BY DEF Subscribe
<1>2. subs' \in [Subscriptions -> Nat]
  BY <1>1 DEF ConfirmationTypes
<1>3. \A x \in Subscriptions : subs[x] \in Nat /\ node.heard[x] \in Nat
  BY DEF ConfirmationTypes
<1> QED
  BY <1>1, <1>2, <1>3 DEF Told

\* At first nobody has sent.
LEMMA ConfirmationInit == Init => ConfirmationInv
<1> SUFFICES ASSUME Init PROVE ConfirmationInv
  OBVIOUS
<1>1. ConfirmationTypes
  BY DEF Init, ConfirmationTypes
<1>2. \A x \in Subscriptions : Told(x) = 0
  BY DEF Init, Told
<1>3. SignatureIsAccepted /\ UnknownIsUntold /\ ToldIsConnected
  BY <1>2 DEF Init, SignatureIsAccepted, UnknownIsUntold, ToldIsConnected
<1>4. ToldOnce
  BY <1>2 DEF ToldOnce, Told
<1> QED
  BY <1>1, <1>3, <1>4 DEF ConfirmationInv

-----------------------------------------------------------------------------

\* send of a transaction, whatever is awaited or to come of an earlier one.
LEMMA SendKeeps == ASSUME ConfirmationInv, Send PROVE ConfirmationInv'
<1>1. /\ tx' = [tx EXCEPT !.sending = TRUE] /\ prog' = [prog EXCEPT !.edited = FALSE, !.crossed = Crossed]
      /\ node' = [node EXCEPT !.sends = @ + 1, !.wire = @ \cup {node.sends + 1}] /\ subs' = subs
      /\ node.sends < MaxSends
  BY DEF Send
<1>2. MaxSends \in Nat
  BY Assumption
<1>3. node.sends \in Nat /\ node.sends + 1 \in Sigs
  <2>1. node.sends \in Nat /\ node.sends + 1 \in 1 .. MaxSends
    BY <1>1, <1>2 DEF ConfirmationInv, ConfirmationTypes, Sigs
  <2> QED
    BY <2>1 DEF Sigs
<1>4. Crossed \in SUBSET Levels
  BY DEF Crossed
<1>5. ConfirmationTypes'
  BY <1>1, <1>3, <1>4 DEF ConfirmationInv, ConfirmationTypes
<1>6. /\ node'.sends = node.sends + 1 /\ node'.wire = node.wire \cup {node.sends + 1}
      /\ node'.accepted = node.accepted /\ tx'.result = tx.result /\ tx'.connections = tx.connections
      /\ ~prog'.edited /\ \A x \in Subscriptions : Told(x)' = Told(x)
  BY <1>1 DEF ConfirmationInv, ConfirmationTypes, Told
<1>7. SignatureIsAccepted'
  <2>1. \A s \in node.wire \cup node.accepted : s \in Nat /\ s <= node.sends
    BY DEF ConfirmationInv, ConfirmationTypes, SignatureIsAccepted, Sigs
  <2>2. \A s \in node'.wire \cup node'.accepted : s <= node'.sends
    BY <1>3, <1>6, <2>1
  <2>3. node.sends + 1 \notin node.accepted
    BY <1>3, <2>1
  <2>4. node'.wire \cap node'.accepted = {}
    BY <1>6, <2>3 DEF ConfirmationInv, SignatureIsAccepted
  <2> QED
    BY <1>6, <2>2, <2>4 DEF ConfirmationInv, SignatureIsAccepted
<1>8. UnknownIsUntold' /\ ToldIsConnected'
  BY <1>6 DEF ConfirmationInv, UnknownIsUntold, ToldIsConnected
<1>9. ToldOnce'
  BY <1>6 DEF ConfirmationInv, ToldOnce, Told
<1> QED
  BY <1>5, <1>7, <1>8, <1>9 DEF ConfirmationInv

\* An edit forgets the signature.
LEMMA EditKeeps == ASSUME ConfirmationInv, Edit PROVE ConfirmationInv'
<1>1. /\ tx' = [tx EXCEPT !.result = 0] /\ prog' = [prog EXCEPT !.edited = TRUE, !.dropped = @ \cup Dropped]
      /\ subs' = subs /\ node' = node
  BY DEF Edit, ResetState
<1>2. Dropped \in SUBSET Levels
  BY DEF Dropped
<1>3. ConfirmationTypes'
  BY <1>1, <1>2 DEF ConfirmationInv, ConfirmationTypes
<1>4. tx'.result = 0 /\ \A x \in Subscriptions : Told(x)' = Told(x) /\ x[2] # 0
  BY <1>1 DEF ConfirmationInv, ConfirmationTypes, Told, Subscriptions, Sigs
<1>5. SignatureIsAccepted'
  BY <1>1, <1>4 DEF ConfirmationInv, SignatureIsAccepted
<1>6. UnknownIsUntold' /\ ToldIsConnected' /\ ToldOnce'
  BY <1>1, <1>4 DEF ConfirmationInv, UnknownIsUntold, ToldIsConnected, ToldOnce, Told
<1> QED
  BY <1>3, <1>5, <1>6 DEF ConfirmationInv

\* The answer to a send brings its signature, if the handler is still connected.
LEMMA SendAnswerKeeps ==
  ASSUME ConfirmationInv, NEW s \in Sigs, NEW accepted \in BOOLEAN, SendCallback(s, accepted)
  PROVE  ConfirmationInv'
<1> DEFINE told == tx.sending /\ accepted
<1>1. s \in node.wire /\ s # 0 /\ s \notin node.accepted
  BY DEF SendCallback, ConfirmationInv, SignatureIsAccepted, Sigs
<1>2. node' = [node EXCEPT !.wire = @ \ {s}, !.accepted = IF told THEN @ \cup {s} ELSE @]
  BY DEF SendCallback
<1>3. /\ node' \in [sends : {0} \cup Sigs, wire : SUBSET Sigs, accepted : SUBSET Sigs,
                    reached : [Sigs -> 0 .. 3], heard : [Subscriptions -> Nat]]
      /\ node'.sends = node.sends /\ node'.heard = node.heard /\ node'.wire = node.wire \ {s}
      /\ node'.accepted = IF told THEN node.accepted \cup {s} ELSE node.accepted
  BY <1>2 DEF ConfirmationInv, ConfirmationTypes
<1>4. \A x \in Subscriptions : x[2] # 0 /\ x[1] \in Levels
  BY DEF Subscriptions, Sigs
<1>5. /\ \A r \in node'.wire \cup node'.accepted : r <= node'.sends
      /\ node'.wire \cap node'.accepted = {}
  BY <1>1, <1>3 DEF ConfirmationInv, SignatureIsAccepted
<1>6. CASE ~told
  <2>1. tx' = [tx EXCEPT !.sending = FALSE] /\ subs' = subs /\ prog' = prog
    BY <1>6 DEF SendCallback
  <2>2. ConfirmationTypes'
    BY <1>3, <2>1 DEF ConfirmationInv, ConfirmationTypes
  <2>3. /\ tx'.result = tx.result /\ tx'.connections = tx.connections /\ node'.accepted = node.accepted
        /\ \A x \in Subscriptions : Told(x)' = Told(x)
    BY <1>3, <1>6, <2>1 DEF ConfirmationInv, ConfirmationTypes, Told
  <2>4. SignatureIsAccepted'
    BY <1>5, <2>1, <2>3 DEF ConfirmationInv, SignatureIsAccepted
  <2>5. UnknownIsUntold' /\ ToldIsConnected'
    BY <2>3 DEF ConfirmationInv, UnknownIsUntold, ToldIsConnected
  <2>6. ToldOnce'
    BY <2>3 DEF ConfirmationInv, ToldOnce, Told
  <2> QED
    BY <2>2, <2>4, <2>5, <2>6 DEF ConfirmationInv
<1>7. CASE told
  <2> DEFINE t == CopyConnectionState([tx EXCEPT !.sending = FALSE, !.result = s])
  <2>1. Subscribe(t, Connected(t)) /\ prog' = [prog EXCEPT !.edited = FALSE]
    BY <1>7 DEF SendCallback, HasResult
  <2>2. /\ t \in [result : {0} \cup Sigs, connections : [Levels -> 0 .. 2], sending : BOOLEAN, active : Int]
        /\ t.result = s
    BY ConnectionsType DEF ConfirmationInv, ConfirmationTypes, CopyConnectionState
  <2> HIDE DEF t
  <2>3. Connected(t) \in SUBSET Levels /\ \A l \in Connected(t) : t.connections[l] # 0
    BY DEF Connected
  <2>4. tx' = [t EXCEPT !.active = @ + Cardinality(Connected(t))]
    BY <2>1 DEF Subscribe
  <2>5. /\ tx' \in [result : {0} \cup Sigs, connections : [Levels -> 0 .. 2], sending : BOOLEAN, active : Int]
        /\ tx'.result = s /\ tx'.connections = t.connections
    BY <2>2, <2>3, <2>4, LevelsAreFinite
  <2>6. /\ subs' \in [Subscriptions -> Nat]
        /\ \A x \in Subscriptions :
             subs'[x] = subs[x] + IF x[1] \in Connected(t) /\ x[2] = s THEN 1 ELSE 0
    BY <2>1, <2>2 DEF Subscribe, ConfirmationInv, ConfirmationTypes
  <2>7. ConfirmationTypes' /\ ~prog'.edited
    BY <1>3, <2>1, <2>5, <2>6 DEF ConfirmationInv, ConfirmationTypes
  <2>8. \A x \in Subscriptions :
          Told(x)' = Told(x) + IF x[1] \in Connected(t) /\ x[2] = s THEN 1 ELSE 0
    BY <1>3, <2>6, ToldType DEF ConfirmationInv, Told
  <2>9. \A x \in Subscriptions : Told(x) \in Nat /\ (x[2] = s => Told(x) = 0) /\ Told(x) <= 1
    BY <1>1, ToldType DEF ConfirmationInv, UnknownIsUntold, ToldOnce, Told
  <2>10. SignatureIsAccepted'
    BY <1>3, <1>5, <1>7, <2>5, <2>7 DEF SignatureIsAccepted
  <2>11. UnknownIsUntold'
    BY <1>3, <1>7, <2>8, <2>9 DEF ConfirmationInv, UnknownIsUntold
  <2>12. ToldIsConnected'
    BY <1>4, <2>3, <2>5, <2>8, <2>9 DEF ToldIsConnected
  <2>13. ToldOnce'
    <3>1. \A x \in Subscriptions : Told(x)' <= 1
      BY <2>8, <2>9
    <3> QED
      BY <3>1 DEF ToldOnce, Told
  <2> QED
    BY <2>7, <2>10, <2>11, <2>12, <2>13 DEF ConfirmationInv
<1> QED
  BY <1>6, <1>7

\* _process subscribes to the levels that were not connected.
LEMMA DetectKeeps == ASSUME ConfirmationInv, Detect PROVE ConfirmationInv'
<1> DEFINE new == {l \in Levels : Connections(l) # 0 /\ tx.connections[l] = 0}
           t == [tx EXCEPT !.connections = [l \in Levels |-> IF l \in new THEN Connections(l) ELSE @[l]]]
<1>1. tx.result # 0 /\ Subscribe(t, new) /\ prog' = prog /\ node' = node
  BY DEF Detect
<1>2. /\ t \in [result : {0} \cup Sigs, connections : [Levels -> 0 .. 2], sending : BOOLEAN, active : Int]
      /\ t.result = tx.result /\ t.sending = tx.sending
      /\ \A l \in Levels : t.connections[l] = IF l \in new THEN Connections(l) ELSE tx.connections[l]
  BY ConnectionsType DEF ConfirmationInv, ConfirmationTypes
<1>3. new \in SUBSET Levels /\ \A l \in new : Connections(l) # 0 /\ tx.connections[l] = 0
  OBVIOUS
<1> HIDE DEF new, t
<1>4. tx' = [t EXCEPT !.active = @ + Cardinality(new)]
  BY <1>1 DEF Subscribe
<1>5. /\ tx' \in [result : {0} \cup Sigs, connections : [Levels -> 0 .. 2], sending : BOOLEAN, active : Int]
      /\ tx'.result = tx.result /\ tx'.sending = tx.sending /\ tx'.connections = t.connections
  BY <1>2, <1>3, <1>4, LevelsAreFinite
<1>6. /\ subs' \in [Subscriptions -> Nat]
      /\ \A x \in Subscriptions :
           Told(x)' = Told(x) + IF x[1] \in new /\ x[2] = tx.result THEN 1 ELSE 0
  BY <1>1, <1>2, <1>3, SubscribeTells DEF ConfirmationInv
<1>7. ConfirmationTypes'
  BY <1>1, <1>5, <1>6 DEF ConfirmationInv, ConfirmationTypes
<1>8. tx.result \in node.accepted
  BY <1>1 DEF ConfirmationInv, SignatureIsAccepted
<1>9. \A x \in Subscriptions : x[1] \in Levels /\ Told(x) \in Nat /\ Told(x) <= 1
  BY ToldType DEF ConfirmationInv, ToldOnce, Told, Subscriptions, Sigs
\* Whoever is connected now and was not then has not been told.
<1>10. \A x \in Subscriptions : x[1] \in new /\ x[2] = tx.result => Told(x) = 0
  BY <1>3 DEF ConfirmationInv, ToldIsConnected
<1>11. SignatureIsAccepted'
  BY <1>1, <1>5 DEF SignatureIsAccepted, ConfirmationInv
<1>12. UnknownIsUntold'
  BY <1>1, <1>5, <1>6, <1>8, <1>9 DEF ConfirmationInv, UnknownIsUntold
<1>13. ToldIsConnected'
  BY <1>2, <1>3, <1>5, <1>6, <1>9 DEF ConfirmationInv, ToldIsConnected
<1>14. ToldOnce'
  <2>1. \A x \in Subscriptions : Told(x)' <= 1
    BY <1>6, <1>9, <1>10
  <2> QED
    BY <2>1 DEF ToldOnce, Told
<1> QED
  BY <1>7, <1>11, <1>12, <1>13, <1>14 DEF ConfirmationInv

\* A notification is announced once for the signature it was subscribed for.
LEMMA NotifyKeeps == ASSUME ConfirmationInv, NEW l \in Levels, NEW s \in Sigs, Notify(l, s) PROVE ConfirmationInv'
<1> DEFINE y == <<l, s>>
<1>1. /\ subs[y] > 0 /\ subs' = [subs EXCEPT ![y] = @ - 1]
      /\ tx' = [tx EXCEPT !.active = @ - 1]
      /\ prog' = [prog EXCEPT !.waits[l] = 0, !.dropped = @ \ {l}]
      /\ node' = [node EXCEPT !.heard[y] = @ + 1]
  BY DEF Notify, Ended
<1>2. y \in Subscriptions
  BY DEF Subscriptions
<1> HIDE DEF y
<1>3. /\ subs' \in [Subscriptions -> Nat] /\ node'.heard \in [Subscriptions -> Nat]
      /\ \A x \in Subscriptions : subs'[x] = subs[x] - IF x = y THEN 1 ELSE 0
      /\ \A x \in Subscriptions : node'.heard[x] = node.heard[x] + IF x = y THEN 1 ELSE 0
  BY <1>1, <1>2 DEF ConfirmationInv, ConfirmationTypes
<1>4. \A x \in Subscriptions : Told(x)' = Told(x)
  <2> SUFFICES ASSUME NEW x \in Subscriptions PROVE Told(x)' = Told(x)
    OBVIOUS
  <2>1. subs[x] \in Nat /\ node.heard[x] \in Nat
    BY ToldType DEF ConfirmationInv
  <2>2. Told(x)' = subs'[x] + node'.heard[x]
    BY DEF Told
  <2>3. Told(x)' = (subs[x] - IF x = y THEN 1 ELSE 0) + (node.heard[x] + IF x = y THEN 1 ELSE 0)
    BY <1>3, <2>2
  <2> QED
    BY <2>1, <2>3 DEF Told
<1>5. ConfirmationTypes'
  <2>1. prog' \in [waits : [Levels -> {0} \cup Sigs], handlers : SUBSET Levels, edited : BOOLEAN,
                  crossed : SUBSET Levels, dropped : SUBSET Levels]
    <3>1. prog.dropped \ {l} \in SUBSET Levels
      BY DEF ConfirmationInv, ConfirmationTypes
    <3> QED
      BY <1>1, <3>1 DEF ConfirmationInv, ConfirmationTypes
  <2>2. node' \in [sends : {0} \cup Sigs, wire : SUBSET Sigs, accepted : SUBSET Sigs,
                   reached : [Sigs -> 0 .. 3], heard : [Subscriptions -> Nat]]
    BY <1>1, <1>3 DEF ConfirmationInv, ConfirmationTypes
  <2> QED
    BY <1>1, <1>3, <2>1, <2>2 DEF ConfirmationInv, ConfirmationTypes
<1>6. /\ tx'.result = tx.result /\ tx'.connections = tx.connections /\ prog'.edited = prog.edited
      /\ node'.sends = node.sends /\ node'.wire = node.wire /\ node'.accepted = node.accepted
  BY <1>1 DEF ConfirmationInv, ConfirmationTypes
<1>7. SignatureIsAccepted' /\ UnknownIsUntold' /\ ToldIsConnected'
  BY <1>4, <1>6 DEF ConfirmationInv, SignatureIsAccepted, UnknownIsUntold, ToldIsConnected
<1>8. ToldOnce'
  BY <1>4 DEF ConfirmationInv, ToldOnce, Told
<1> QED
  BY <1>5, <1>7, <1>8 DEF ConfirmationInv

\* A step of the program that awaits or connects, or of the chain.
LEMMA OtherStepsKeep ==
  ASSUME ConfirmationInv, ConfirmationTypes', UNCHANGED <<tx, subs>>,
         prog'.edited = prog.edited, node'.sends = node.sends, node'.wire = node.wire,
         node'.accepted = node.accepted, node'.heard = node.heard
  PROVE  ConfirmationInv'
<1>1. \A x \in Subscriptions : Told(x)' = Told(x)
  BY DEF Told
<1>2. SignatureIsAccepted' /\ UnknownIsUntold' /\ ToldIsConnected' /\ ToldOnce'
  BY <1>1 DEF ConfirmationInv, SignatureIsAccepted, UnknownIsUntold, ToldIsConnected, ToldOnce, Told
<1> QED
  BY <1>2 DEF ConfirmationInv

\* No step breaks the invariant.
LEMMA ConfirmationNext == ConfirmationInv /\ [Next]_vars => ConfirmationInv'
<1> SUFFICES ASSUME ConfirmationInv, [Next]_vars PROVE ConfirmationInv'
  OBVIOUS
<1>1. ASSUME NEW l \in Levels, Await(l) PROVE ConfirmationInv'
  <2>1. prog' = [prog EXCEPT !.waits[l] = node.sends] /\ UNCHANGED <<tx, subs, node>>
    BY <1>1 DEF Await
  <2>2. ConfirmationTypes' /\ prog'.edited = prog.edited
    BY <2>1 DEF ConfirmationInv, ConfirmationTypes
  <2> QED
    BY <2>1, <2>2, OtherStepsKeep
<1>2. ASSUME NEW l \in Levels, Handle(l) PROVE ConfirmationInv'
  <2>1. prog' = [prog EXCEPT !.handlers = @ \cup {l}] /\ UNCHANGED <<tx, subs, node>>
    BY <1>2 DEF Handle
  <2>2. ConfirmationTypes' /\ prog'.edited = prog.edited
    BY <2>1 DEF ConfirmationInv, ConfirmationTypes
  <2> QED
    BY <2>1, <2>2, OtherStepsKeep
<1>3. ASSUME NEW s \in Sigs, Reach(s) PROVE ConfirmationInv'
  <2>1. /\ node' = [node EXCEPT !.reached[s] = @ + 1] /\ UNCHANGED <<tx, prog, subs>>
        /\ node.reached[s] < 3
    BY <1>3 DEF Reach
  <2>2. node.reached[s] + 1 \in 0 .. 3
    BY <2>1 DEF ConfirmationInv, ConfirmationTypes
  <2>3. /\ ConfirmationTypes' /\ node'.sends = node.sends /\ node'.wire = node.wire
        /\ node'.accepted = node.accepted /\ node'.heard = node.heard
    BY <2>1, <2>2 DEF ConfirmationInv, ConfirmationTypes
  <2> QED
    BY <2>1, <2>3, OtherStepsKeep
<1>4. CASE UNCHANGED vars
  <2>1. ConfirmationTypes'
    BY <1>4 DEF vars, ConfirmationInv, ConfirmationTypes
  <2> QED
    BY <1>4, <2>1, OtherStepsKeep DEF vars
<1> QED
  BY <1>1, <1>2, <1>3, <1>4, SendKeeps, EditKeeps, SendAnswerKeeps, DetectKeeps, NotifyKeeps
     DEF Next, Answered

-----------------------------------------------------------------------------

\* A run of the services is one of the confirmation: what is shown of TxConfirmation
\* holds beside the others.
THEOREM ServicesConfirm == SpecServices => Spec
<1>1. InitServices => Init
  BY DEF InitServices
<1>2. [NextServices]_all => [Next]_vars
  BY DEF NextServices, Of, all
<1> QED
  BY <1>1, <1>2, PTL DEF SpecServices, Spec

\* A level of a transaction is announced once, whatever was connected before the
\* answer, with it or later.  send_callback, _process.
THEOREM NobodyIsToldTwice == Spec => []ToldOnce
<1>1. ConfirmationInv => ToldOnce
  BY DEF ConfirmationInv
<1> QED
  BY <1>1, ConfirmationInit, ConfirmationNext, PTL DEF Spec

-----------------------------------------------------------------------------

\* At a level where nothing of an earlier send was to come when the last one was made,
\* what is subscribed to, awaited, to be answered and held is of the last send.
OpenIsLast ==
  \A l \in Levels \ prog.crossed :
    /\ \A s \in Sigs : subs[<<l, s>>] # 0 => s = node.sends
    /\ prog.waits[l] \in {0, node.sends} /\ node.wire \subseteq {node.sends}
    /\ tx.result \in {0, node.sends}

\* At first nothing is subscribed to.
LEMMA InitOpenIsLast == Init => OpenIsLast
BY DEF Init, OpenIsLast, Subscriptions

\* Subscribing to the last send, or to nothing new, leaves every open one of it.
LEMMA SubscribeIsLast ==
  ASSUME ConfirmationInv, OpenIsLast, NEW t, NEW ls, Subscribe(t, ls),
         \A l \in Levels \ prog.crossed : t.result = node.sends
  PROVE  \A l \in Levels \ prog.crossed : \A s \in Sigs : subs'[<<l, s>>] # 0 => s = node.sends
<1> SUFFICES ASSUME NEW l \in Levels \ prog.crossed, NEW s \in Sigs, subs'[<<l, s>>] # 0 PROVE s = node.sends
  OBVIOUS
<1> DEFINE y == <<l, s>>
<1>1. y \in Subscriptions /\ y[2] = s
  BY DEF Subscriptions
<1> HIDE DEF y
<1>2. subs' = [x \in Subscriptions |-> subs[x] + IF x[1] \in ls /\ x[2] = t.result THEN 1 ELSE 0]
  BY DEF Subscribe
<1>3. subs[y] # 0 \/ y[2] = t.result
  BY <1>1, <1>2 DEF ConfirmationInv, ConfirmationTypes, y
<1> QED
  BY <1>1, <1>3 DEF OpenIsLast, y

\* Every subscription and await is of the last send, at a level not crossed.
LEMMA NextOpenIsLast == ConfirmationInv /\ OpenIsLast /\ [Next]_vars => OpenIsLast'
<1> SUFFICES ASSUME ConfirmationInv, OpenIsLast, [Next]_vars PROVE OpenIsLast'
  OBVIOUS
<1>1. CASE Send
  <2>1. /\ subs' = subs /\ prog' = [prog EXCEPT !.edited = FALSE, !.crossed = Crossed]
        /\ node' = [node EXCEPT !.sends = @ + 1, !.wire = @ \cup {node.sends + 1}]
        /\ tx' = [tx EXCEPT !.sending = TRUE]
    BY <1>1 DEF Send
  <2>2. /\ prog'.crossed = Crossed /\ prog'.waits = prog.waits /\ node'.sends = node.sends + 1
        /\ node'.wire = node.wire \cup {node'.sends} /\ tx'.result = tx.result
    BY <2>1 DEF ConfirmationInv, ConfirmationTypes
  <2>3. \A l \in Levels \ Crossed : /\ prog.waits[l] = 0 /\ node.wire = {} /\ prog.edited
                                    /\ \A s \in Sigs : subs[<<l, s>>] = 0
    BY DEF Crossed
  <2>4. \A l \in Levels \ Crossed : tx.result = 0
    BY <2>3 DEF ConfirmationInv, SignatureIsAccepted
  <2> QED
    BY <2>1, <2>2, <2>3, <2>4 DEF OpenIsLast
<1>2. CASE Edit
  <2>1. /\ subs' = subs /\ node' = node /\ prog' = [prog EXCEPT !.edited = TRUE, !.dropped = @ \cup Dropped]
        /\ tx' = [tx EXCEPT !.result = 0]
    BY <1>2 DEF Edit, ResetState
  <2>2. prog'.waits = prog.waits /\ prog'.crossed = prog.crossed /\ tx'.result = 0
    BY <2>1 DEF ConfirmationInv, ConfirmationTypes
  <2> QED
    BY <2>1, <2>2 DEF OpenIsLast
<1>3. CASE Detect
  <2> DEFINE new == {l \in Levels : Connections(l) # 0 /\ tx.connections[l] = 0}
             t == [tx EXCEPT !.connections = [l \in Levels |-> IF l \in new THEN Connections(l) ELSE @[l]]]
  <2>1. tx.result # 0 /\ Subscribe(t, new) /\ prog' = prog /\ node' = node
    BY <1>3 DEF Detect
  <2>2. t.result = tx.result
    BY DEF ConfirmationInv, ConfirmationTypes
  <2> HIDE DEF new, t
  <2>3. \A l \in Levels \ prog.crossed : t.result = node.sends
    BY <2>1, <2>2 DEF OpenIsLast
  <2>4. tx'.result = tx.result
    <3>1. tx' = [t EXCEPT !.active = @ + Cardinality(new)]
      BY <2>1 DEF Subscribe
    <3>2. tx'.result = t.result
      BY <3>1 DEF t, ConfirmationInv, ConfirmationTypes
    <3> QED
      BY <2>2, <3>2
  <2>5. \A l \in Levels \ prog.crossed : \A s \in Sigs : subs'[<<l, s>>] # 0 => s = node.sends
    BY <2>1, <2>3, SubscribeIsLast
  <2> QED
    BY <2>1, <2>4, <2>5 DEF OpenIsLast
<1>4. ASSUME NEW s \in Sigs, NEW accepted \in BOOLEAN, SendCallback(s, accepted) PROVE OpenIsLast'
  <2>1. s \in node.wire /\ node'.sends = node.sends /\ node'.wire = node.wire \ {s}
    BY <1>4 DEF SendCallback, ConfirmationInv, ConfirmationTypes
  <2>2. \A l \in Levels \ prog.crossed : s = node.sends
    BY <2>1 DEF OpenIsLast
  <2>3. CASE tx.sending /\ accepted
    <3> DEFINE t == CopyConnectionState([tx EXCEPT !.sending = FALSE, !.result = s])
    <3>1. Subscribe(t, Connected(t)) /\ prog' = [prog EXCEPT !.edited = FALSE]
      BY <1>4, <2>3 DEF SendCallback, HasResult
    <3>2. t.result = s
      BY DEF CopyConnectionState, ConfirmationInv, ConfirmationTypes
    <3>3. tx' = [t EXCEPT !.active = @ + Cardinality(Connected(t))]
      BY <3>1 DEF Subscribe
    <3>4. tx'.result = s
      BY <3>3 DEF CopyConnectionState, ConfirmationInv, ConfirmationTypes
    <3> HIDE DEF t
    <3>5. \A l \in Levels \ prog.crossed : \A r \in Sigs : subs'[<<l, r>>] # 0 => r = node.sends
      BY <2>2, <3>1, <3>2, SubscribeIsLast
    <3>6. prog'.waits = prog.waits /\ prog'.crossed = prog.crossed
      BY <3>1 DEF ConfirmationInv, ConfirmationTypes
    <3> QED
      BY <2>1, <2>2, <3>4, <3>5, <3>6 DEF OpenIsLast
  <2>4. CASE ~(tx.sending /\ accepted)
    <3>1. subs' = subs /\ prog' = prog /\ tx' = [tx EXCEPT !.sending = FALSE]
      BY <1>4, <2>4 DEF SendCallback
    <3>2. tx'.result = tx.result
      BY <3>1 DEF ConfirmationInv, ConfirmationTypes
    <3> QED
      BY <2>1, <3>1, <3>2 DEF OpenIsLast
  <2> QED
    BY <2>3, <2>4
<1>5. ASSUME NEW l \in Levels, Await(l) PROVE OpenIsLast'
  <2>1. prog' = [prog EXCEPT !.waits[l] = node.sends] /\ UNCHANGED <<tx, subs, node>>
    BY <1>5 DEF Await
  <2>2. /\ prog'.crossed = prog.crossed
        /\ \A m \in Levels : prog'.waits[m] = IF m = l THEN node.sends ELSE prog.waits[m]
    BY <2>1 DEF ConfirmationInv, ConfirmationTypes
  <2> QED
    BY <2>1, <2>2 DEF OpenIsLast
<1>6. ASSUME NEW l \in Levels, Handle(l) PROVE OpenIsLast'
  <2>1. prog'.waits = prog.waits /\ prog'.crossed = prog.crossed /\ UNCHANGED <<tx, subs, node>>
    BY <1>6 DEF Handle, ConfirmationInv, ConfirmationTypes
  <2> QED
    BY <2>1 DEF OpenIsLast
<1>7. ASSUME NEW l \in Levels, NEW s \in Sigs, Notify(l, s) PROVE OpenIsLast'
  <2>1. /\ subs[<<l, s>>] > 0 /\ subs' = [subs EXCEPT ![<<l, s>>] = @ - 1]
        /\ prog' = [prog EXCEPT !.waits[l] = 0, !.dropped = @ \ {l}]
    BY <1>7 DEF Notify
  <2>2. node'.sends = node.sends /\ node'.wire = node.wire /\ tx'.result = tx.result
    BY <1>7 DEF Notify, Ended, ConfirmationInv, ConfirmationTypes
  <2>3. <<l, s>> \in Subscriptions
    BY DEF Subscriptions
  <2>4. \A x \in Subscriptions : subs'[x] # 0 => subs[x] # 0
    BY <2>1, <2>3 DEF ConfirmationInv, ConfirmationTypes
  <2>5. /\ prog'.crossed = prog.crossed
        /\ \A m \in Levels : prog'.waits[m] # 0 => prog'.waits[m] = prog.waits[m]
    BY <2>1 DEF ConfirmationInv, ConfirmationTypes
  <2>6. \A m \in Levels : \A r \in Sigs : <<m, r>> \in Subscriptions
    BY DEF Subscriptions
  <2> QED
    BY <2>2, <2>4, <2>5, <2>6 DEF OpenIsLast
<1>8. ASSUME NEW s \in Sigs, Reach(s) PROVE OpenIsLast'
  <2>1. node'.sends = node.sends /\ node'.wire = node.wire /\ UNCHANGED <<tx, prog, subs>>
    BY <1>8 DEF Reach, ConfirmationInv, ConfirmationTypes
  <2> QED
    BY <2>1 DEF OpenIsLast
<1>9. CASE UNCHANGED vars
  BY <1>9 DEF vars, OpenIsLast
<1> QED
  BY <1>1, <1>2, <1>3, <1>4, <1>5, <1>6, <1>7, <1>8, <1>9 DEF Next, Answered

\* Only a notification ends an await, and it is of an accepted send.
LEMMA NotifiedIsReached ==
  ConfirmationInv /\ OpenIsLast /\ [Next]_vars =>
    \A l \in Levels : prog.waits[l] # 0 /\ prog'.waits[l] = 0 =>
      \E s \in node.accepted : node.reached[s] >= l /\ (l \notin prog.crossed => s = prog.waits[l])
<1> DEFINE Reached(l) == \E s \in node.accepted : /\ node.reached[s] >= l
                                                  /\ l \notin prog.crossed => s = prog.waits[l]
<1> SUFFICES ASSUME ConfirmationInv, OpenIsLast, [Next]_vars,
                    NEW l \in Levels, prog.waits[l] # 0, prog'.waits[l] = 0
             PROVE  Reached(l)
  OBVIOUS
<1>1. ASSUME NEW m \in Levels, NEW s \in Sigs, Notify(m, s) PROVE Reached(l)
  <2>1. /\ subs[<<m, s>>] > 0 /\ node.reached[s] >= m
        /\ prog' = [prog EXCEPT !.waits[m] = 0, !.dropped = @ \ {m}]
    BY <1>1 DEF Notify
  <2>2. m = l
    BY <2>1 DEF ConfirmationInv, ConfirmationTypes
  <2>3. s \in node.accepted
    <3> DEFINE y == <<m, s>>
    <3>1. y \in Subscriptions /\ y[2] = s
      BY DEF Subscriptions
    <3> HIDE DEF y
    <3>2. subs[y] \in Nat /\ node.heard[y] \in Nat /\ subs[y] # 0
      BY <2>1, <3>1, ToldType DEF ConfirmationInv, y
    <3>3. Told(y) # 0
      BY <3>2 DEF Told
    <3> QED
      BY <3>1, <3>3 DEF ConfirmationInv, UnknownIsUntold
  <2>4. l \notin prog.crossed => s = prog.waits[l]
    BY <2>1, <2>2 DEF OpenIsLast
  <2> QED
    BY <2>1, <2>2, <2>3, <2>4
<1>2. ASSUME prog'.waits = prog.waits PROVE FALSE
  BY <1>2
<1>3. CASE Send \/ Edit
  <2>1. prog'.waits = prog.waits
    BY <1>3 DEF Send, Edit, ConfirmationInv, ConfirmationTypes
  <2> QED
    BY <1>2, <2>1
<1>4. ASSUME NEW m \in Levels, Await(m) PROVE FALSE
  <2>1. prog' = [prog EXCEPT !.waits[m] = node.sends] /\ node.sends > 0
    BY <1>4 DEF Await
  <2>2. prog'.waits[l] = IF l = m THEN node.sends ELSE prog.waits[l]
    BY <2>1 DEF ConfirmationInv, ConfirmationTypes
  <2> QED
    BY <2>1, <2>2
<1>5. ASSUME NEW m \in Levels, Handle(m) PROVE FALSE
  <2>1. prog'.waits = prog.waits
    BY <1>5 DEF Handle, ConfirmationInv, ConfirmationTypes
  <2> QED
    BY <1>2, <2>1
<1>6. ASSUME NEW s \in Sigs, NEW accepted \in BOOLEAN, SendCallback(s, accepted) PROVE FALSE
  <2>1. prog' = prog \/ prog' = [prog EXCEPT !.edited = FALSE]
    BY <1>6 DEF SendCallback
  <2>2. prog'.waits = prog.waits
    BY <2>1 DEF ConfirmationInv, ConfirmationTypes
  <2> QED
    BY <1>2, <2>2
<1>7. CASE Detect \/ (\E s \in Sigs : Reach(s)) \/ UNCHANGED vars
  <2>1. prog' = prog
    BY <1>7 DEF Detect, Reach, vars
  <2> QED
    BY <1>2, <2>1
<1> QED
  BY <1>1, <1>3, <1>4, <1>5, <1>6, <1>7 DEF Next, Answered

\* A coroutine that awaits a level goes on only if a transaction this object was told is
\* accepted has reached that level, and its own has unless something of an earlier send
\* was still to come at that level when it was sent (prog.crossed), for any levels and any
\* number of sends, edits and answers.  send, send_callback,
\* _emit_processed_callback, _emit_confirmed_callback, _emit_finalized_callback.
THEOREM AwaitsAreTrue == Spec => AwaitIsTrue
<1>1. ConfirmationInv /\ OpenIsLast /\ [Next]_vars =>
        [\A l \in Levels : prog.waits[l] # 0 /\ prog'.waits[l] = 0 =>
           \E s \in node.accepted : /\ node.reached[s] >= l
                                    /\ l \notin prog.crossed => s = prog.waits[l]]_vars
  BY NotifiedIsReached
<1> QED
  BY <1>1, ConfirmationInit, ConfirmationNext, InitOpenIsLast, NextOpenIsLast, PTL DEF Spec, AwaitIsTrue
=============================================================================
