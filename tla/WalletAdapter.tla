--------------------------- MODULE WalletAdapter ---------------------------
(***************************************************************************)
(* The wallet adapter in one of its two builds: the node and what it tells *)
(* its callers are the same, behind it is the JavaScript bridge of the web *)
(* build (WalletAdapterWeb) or the plugin of the Android build.            *)
(***************************************************************************)
EXTENDS WalletAdapterWeb

CONSTANT AndroidEnv \* what may happen in the Android build

VARIABLES
  build,                 \* "web" or "android"
  plugin, kt, activities \* of the Android build

Android == INSTANCE WalletAdapterAndroid WITH Env <- AndroidEnv

adapterVars == <<build, vars, plugin, kt, activities>>

InitAdapter ==
  /\ \/ build = "web" /\ Init /\ plugin = FALSE /\ kt = None /\ activities = {}
     \/ build = "android" /\ Android!Init /\ js = None /\ popups = {}

NextAdapter ==
  \/ build = "web" /\ Next /\ UNCHANGED <<build, plugin, kt, activities>>
  \/ build = "android" /\ Android!Next /\ UNCHANGED <<build, js, popups>>

\* The fairness of either build.
SpecAdapter ==
  /\ InitAdapter /\ [][NextAdapter]_adapterVars
  /\ WF_adapterVars(build = "web" /\ Process /\ UNCHANGED <<build, plugin, kt, activities>>)
  /\ WF_adapterVars(build = "web" /\ (\E p \in popups : Settled(p)) /\ UNCHANGED <<build, plugin, kt, activities>>)
  /\ WF_adapterVars(build = "android" /\ Android!Process /\ UNCHANGED <<build, js, popups>>)
  /\ WF_adapterVars(build = "android" /\ (\E a \in activities : Android!Activity(a)) /\ UNCHANGED <<build, js, popups>>)

\* In either build message_signed delivers the signature of what the call it
\* answers has sent.  did_transaction_change says in the web build whether the wallet
\* changed the transaction; in the Android build it claims no change there was not,
\* which is all it can be relied on for.
EverySignatureIsOwn ==
  IF build = "web" THEN SignedIsOwn /\ DirtyIsTrue ELSE Android!SignedIsOwn /\ Android!DirtyIsDue

\* The Android user is asked to sign only what a call waits for, once.
AskedForACall == build = "android" => Android!AskedForACall
=============================================================================
