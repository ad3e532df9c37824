------------------------------ MODULE CA_proofs ------------------------------
(***************************************************************************)
(* Proofs, for any number of commands and names, that commands which do    *)
(* not overlap load one CA, whichever of them die between two writes; that *)
(* the routes verify after an install; and that nothing of portless is     *)
(* trusted after an uninstall.                                             *)
(***************************************************************************)
EXTENDS CA, TLAPS

-----------------------------------------------------------------------------
(* The inductive invariant                                                 *)

\* Commands do not overlap and reads succeed; a process may die, or fail to
\* write, inside os.WriteFile.
Calm == world \subseteq {"torn"}

\* One command at most reads, writes or changes the trust store.
OneAtWork ==
  \A p, q \in Procs : pc[p] \in Busy /\ pc[q] \in Busy => p = q

\* The key is written last: when there is one it is that of the certificate,
\* and a Load that generates a CA has found none.
KeyIsLast ==
  /\ key # NoFile => crt \in Procs
  /\ key \in Procs => crt = key
  /\ \A p \in Procs :
        /\ pc[p] = "readKey" => crtPEM[p] = crt
        /\ pc[p] \in {"openCrt", "writeCrt", "openKey"} => key = NoFile
        /\ pc[p] = "writeCrt" => crt = Torn
        /\ pc[p] \in {"openKey", "writeKey"} => crt = p
        /\ pc[p] = "writeKey" => key = Torn

\* A CA that was loaded is the one in the files, which stay as they are from
\* then on.
LoadedIsStored ==
  \A p \in Procs : ca[p] # None =>
      key \in Procs /\ ca[p] = [cert |-> key, key |-> key]

\* The trust store has the certificate of the files, or none, and what was
\* reported of it last is true.
StoreIsKnown ==
  /\ trusted \subseteq {key}
  /\ \A p \in Procs : /\ pc[p] = "copied" => key \in Procs /\ dst = key
                      /\ pc[p] = "unlinked" => dst = NoFile
  /\ last = "installed" => key \in Procs /\ key \in trusted
  /\ last = "removed" => trusted = {}

\* Without torn writes a file is torn only while it is being written.
NothingTorn ==
  /\ crt = Torn => \E p \in Procs : pc[p] = "writeCrt"
  /\ key = Torn => \E p \in Procs : pc[p] = "writeKey"
  /\ \A p \in Procs : pc[p] # "failed"

IInv ==
  /\ TypeOK
  /\ Calm => OneAtWork /\ KeyIsLast /\ LoadedIsStored /\ StoreIsKnown
  /\ world = {} => NothingTorn

-----------------------------------------------------------------------------
(* The commands                                                            *)

\* Initially there is no CA.
LEMMA InitIInv == Init => IInv
<1> SUFFICES ASSUME Init PROVE IInv
  OBVIOUS
<1>1. TypeOK
  BY DEF Init, TypeOK, Content, Loading, Hardships
<1>2. OneAtWork /\ KeyIsLast /\ LoadedIsStored /\ StoreIsKnown
  BY CAAssumption DEF Init, OneAtWork, Busy, Loading, KeyIsLast,
     LoadedIsStored, StoreIsKnown
<1>3. NothingTorn
  BY CAAssumption DEF Init, NothingTorn
<1> QED
  BY <1>1, <1>2, <1>3 DEF IInv

\* A Load begins when nobody else is at work.
LEMMA ReadCrtStep ==
    ASSUME IInv, NEW p \in Procs, ReadCrt(p)
    PROVE  IInv'
<1> USE CAAssumption DEF TypeOK, ReadCrt, Turn, Goto, files, store
<1>1. TypeOK'
  BY DEF IInv, Content, Loading
<1>2. /\ world' = world
      /\ Calm => {"overlap", "readError"} \cap world = {}
      /\ world = {} => Calm
  BY DEF Calm
<1>3. ASSUME Calm, TypeOK, OneAtWork, KeyIsLast, LoadedIsStored, StoreIsKnown
      PROVE  OneAtWork' /\ KeyIsLast' /\ LoadedIsStored' /\ StoreIsKnown'
  <2>1. OneAtWork'
    BY <1>2, <1>3 DEF OneAtWork, Busy, Loading
  <2>2. KeyIsLast'
    BY <1>2, <1>3 DEF OneAtWork, Busy, Loading, KeyIsLast
  <2>3. LoadedIsStored'
    BY <1>2, <1>3 DEF KeyIsLast, LoadedIsStored
  <2>4. StoreIsKnown'
    BY <1>2, <1>3 DEF OneAtWork, Busy, Loading, KeyIsLast, LoadedIsStored,
       StoreIsKnown
  <2> QED
    BY <2>1, <2>2, <2>3, <2>4
<1>4. ASSUME world = {}, TypeOK, OneAtWork, KeyIsLast, NothingTorn
      PROVE  NothingTorn'
  BY <1>2, <1>4 DEF OneAtWork, Busy, Loading, KeyIsLast, NothingTorn
<1> HIDE DEF TypeOK, ReadCrt, Turn, Goto
<1> QED
  BY <1>1, <1>2, <1>3, <1>4 DEF IInv, Calm

\* A Load takes the CA of the files; it generates one only without a key.
LEMMA ReadKeyStep ==
    ASSUME IInv, NEW p \in Procs, ReadKey(p)
    PROVE  IInv'
<1> USE CAAssumption DEF TypeOK, ReadKey, fromPEM, Loaded, Goto, files, store
<1>1. TypeOK'
  BY DEF IInv, Content, Loading
<1>2. /\ world' = world
      /\ Calm => {"overlap", "readError"} \cap world = {}
      /\ world = {} => Calm
  BY DEF Calm
<1>3. ASSUME Calm, TypeOK, OneAtWork, KeyIsLast, LoadedIsStored, StoreIsKnown
      PROVE  OneAtWork' /\ KeyIsLast' /\ LoadedIsStored' /\ StoreIsKnown'
  <2>1. OneAtWork'
    BY <1>2, <1>3 DEF OneAtWork, Busy, Loading
  <2>2. KeyIsLast'
    BY <1>2, <1>3 DEF OneAtWork, Busy, Loading, KeyIsLast
  <2>3. LoadedIsStored'
    <3>1. CASE UNCHANGED ca
      BY <1>3, <3>1 DEF LoadedIsStored
    <3>2. CASE ca' # ca
      <4>1. /\ key \in Procs /\ crtPEM[p] = key
            /\ ca' = [ca EXCEPT ![p] = [cert |-> crtPEM[p], key |-> key]]
        BY <1>3, <3>2 DEF KeyIsLast, Content
      <4> QED
        BY <1>3, <4>1 DEF LoadedIsStored
    <3> QED
      BY <3>1, <3>2
  <2>4. StoreIsKnown'
    BY <1>2, <1>3 DEF OneAtWork, Busy, Loading, KeyIsLast, LoadedIsStored,
       StoreIsKnown
  <2> QED
    BY <2>1, <2>2, <2>3, <2>4
<1>4. ASSUME world = {}, TypeOK, OneAtWork, KeyIsLast, NothingTorn
      PROVE  NothingTorn'
  BY <1>2, <1>4 DEF OneAtWork, Busy, Loading, KeyIsLast, NothingTorn
<1> HIDE DEF TypeOK, ReadKey, fromPEM, Loaded, Goto
<1> QED
  BY <1>1, <1>2, <1>3, <1>4 DEF IInv, Calm

\* The certificate is truncated.
LEMMA OpenCrtStep ==
    ASSUME IInv, NEW p \in Procs, OpenCrt(p)
    PROVE  IInv'
<1> USE CAAssumption DEF TypeOK, OpenCrt, Goto, files, store
<1>1. TypeOK'
  BY DEF IInv, Content, Loading
<1>2. /\ world' = world
      /\ Calm => {"overlap", "readError"} \cap world = {}
      /\ world = {} => Calm
  BY DEF Calm
<1>3. ASSUME Calm, TypeOK, OneAtWork, KeyIsLast, LoadedIsStored, StoreIsKnown
      PROVE  OneAtWork' /\ KeyIsLast' /\ LoadedIsStored' /\ StoreIsKnown'
  <2>1. OneAtWork'
    BY <1>2, <1>3 DEF OneAtWork, Busy, Loading
  <2>2. KeyIsLast'
    BY <1>2, <1>3 DEF OneAtWork, Busy, Loading, KeyIsLast
  <2>3. LoadedIsStored'
    BY <1>2, <1>3 DEF KeyIsLast, LoadedIsStored
  <2>4. StoreIsKnown'
    BY <1>2, <1>3 DEF OneAtWork, Busy, Loading, KeyIsLast, LoadedIsStored,
       StoreIsKnown
  <2> QED
    BY <2>1, <2>2, <2>3, <2>4
<1>4. ASSUME world = {}, TypeOK, OneAtWork, KeyIsLast, NothingTorn
      PROVE  NothingTorn'
  BY <1>2, <1>4 DEF OneAtWork, Busy, Loading, KeyIsLast, NothingTorn
<1> HIDE DEF TypeOK, OpenCrt, Goto
<1> QED
  BY <1>1, <1>2, <1>3, <1>4 DEF IInv, Calm

\* The certificate is written.
LEMMA WriteCrtStep ==
    ASSUME IInv, NEW p \in Procs, WriteCrt(p)
    PROVE  IInv'
<1> USE CAAssumption DEF TypeOK, WriteCrt, Goto, files, store
<1>1. TypeOK'
  BY DEF IInv, Content, Loading
<1>2. /\ world' = world
      /\ Calm => {"overlap", "readError"} \cap world = {}
      /\ world = {} => Calm
  BY DEF Calm
<1>3. ASSUME Calm, TypeOK, OneAtWork, KeyIsLast, LoadedIsStored, StoreIsKnown
      PROVE  OneAtWork' /\ KeyIsLast' /\ LoadedIsStored' /\ StoreIsKnown'
  <2>1. OneAtWork'
    BY <1>2, <1>3 DEF OneAtWork, Busy, Loading
  <2>2. KeyIsLast'
    BY <1>2, <1>3 DEF OneAtWork, Busy, Loading, KeyIsLast
  <2>3. LoadedIsStored'
    BY <1>2, <1>3 DEF KeyIsLast, LoadedIsStored
  <2>4. StoreIsKnown'
    BY <1>2, <1>3 DEF OneAtWork, Busy, Loading, KeyIsLast, LoadedIsStored,
       StoreIsKnown
  <2> QED
    BY <2>1, <2>2, <2>3, <2>4
<1>4. ASSUME world = {}, TypeOK, OneAtWork, KeyIsLast, NothingTorn
      PROVE  NothingTorn'
  BY <1>2, <1>4 DEF OneAtWork, Busy, Loading, KeyIsLast, NothingTorn
<1> HIDE DEF TypeOK, WriteCrt, Goto
<1> QED
  BY <1>1, <1>2, <1>3, <1>4 DEF IInv, Calm

\* The key is truncated.
LEMMA OpenKeyStep ==
    ASSUME IInv, NEW p \in Procs, OpenKey(p)
    PROVE  IInv'
<1> USE CAAssumption DEF TypeOK, OpenKey, Goto, files, store
<1>1. TypeOK'
  BY DEF IInv, Content, Loading
<1>2. /\ world' = world
      /\ Calm => {"overlap", "readError"} \cap world = {}
      /\ world = {} => Calm
  BY DEF Calm
<1>3. ASSUME Calm, TypeOK, OneAtWork, KeyIsLast, LoadedIsStored, StoreIsKnown
      PROVE  OneAtWork' /\ KeyIsLast' /\ LoadedIsStored' /\ StoreIsKnown'
  <2>1. OneAtWork'
    BY <1>2, <1>3 DEF OneAtWork, Busy, Loading
  <2>2. KeyIsLast'
    BY <1>2, <1>3 DEF OneAtWork, Busy, Loading, KeyIsLast
  <2>3. LoadedIsStored'
    BY <1>2, <1>3 DEF KeyIsLast, LoadedIsStored
  <2>4. StoreIsKnown'
    BY <1>2, <1>3 DEF OneAtWork, Busy, Loading, KeyIsLast, LoadedIsStored,
       StoreIsKnown
  <2> QED
    BY <2>1, <2>2, <2>3, <2>4
<1>4. ASSUME world = {}, TypeOK, OneAtWork, KeyIsLast, NothingTorn
      PROVE  NothingTorn'
  BY <1>2, <1>4 DEF OneAtWork, Busy, Loading, KeyIsLast, NothingTorn
<1> HIDE DEF TypeOK, OpenKey, Goto
<1> QED
  BY <1>1, <1>2, <1>3, <1>4 DEF IInv, Calm

\* The key is written, and the CA complete.
LEMMA WriteKeyStep ==
    ASSUME IInv, NEW p \in Procs, WriteKey(p)
    PROVE  IInv'
<1> USE CAAssumption DEF TypeOK, WriteKey, Loaded, Goto, files, store
<1>1. TypeOK'
  BY DEF IInv, Content, Loading
<1>2. /\ world' = world
      /\ Calm => {"overlap", "readError"} \cap world = {}
      /\ world = {} => Calm
  BY DEF Calm
<1>3. ASSUME Calm, TypeOK, OneAtWork, KeyIsLast, LoadedIsStored, StoreIsKnown
      PROVE  OneAtWork' /\ KeyIsLast' /\ LoadedIsStored' /\ StoreIsKnown'
  <2>1. OneAtWork'
    BY <1>2, <1>3 DEF OneAtWork, Busy, Loading
  <2>2. KeyIsLast'
    BY <1>2, <1>3 DEF OneAtWork, Busy, Loading, KeyIsLast
  <2>3. LoadedIsStored'
    BY <1>2, <1>3 DEF KeyIsLast, LoadedIsStored
  <2>4. StoreIsKnown'
    BY <1>2, <1>3 DEF OneAtWork, Busy, Loading, KeyIsLast, LoadedIsStored,
       StoreIsKnown
  <2> QED
    BY <2>1, <2>2, <2>3, <2>4
<1>4. ASSUME world = {}, TypeOK, OneAtWork, KeyIsLast, NothingTorn
      PROVE  NothingTorn'
  BY <1>2, <1>4 DEF OneAtWork, Busy, Loading, KeyIsLast, NothingTorn
<1> HIDE DEF TypeOK, WriteKey, Loaded, Goto
<1> QED
  BY <1>1, <1>2, <1>3, <1>4 DEF IInv, Calm

\* What is installed is the CA that was loaded.
LEMMA InstallStep ==
    ASSUME IInv, NEW p \in Procs, Install(p)
    PROVE  IInv'
<1> USE CAAssumption DEF TypeOK, Install, Turn, Changed, Goto, files, store
<1>1. TypeOK'
  BY DEF IInv, Content, Loading
<1>2. /\ world' = world
      /\ Calm => {"overlap", "readError"} \cap world = {}
      /\ world = {} => Calm
  BY DEF Calm
<1>3. ASSUME Calm, TypeOK, OneAtWork, KeyIsLast, LoadedIsStored, StoreIsKnown
      PROVE  OneAtWork' /\ KeyIsLast' /\ LoadedIsStored' /\ StoreIsKnown'
  <2>1. OneAtWork'
    BY <1>2, <1>3 DEF OneAtWork, Busy, Loading
  <2>2. KeyIsLast'
    BY <1>2, <1>3 DEF OneAtWork, Busy, Loading, KeyIsLast
  <2>3. LoadedIsStored'
    BY <1>2, <1>3 DEF KeyIsLast, LoadedIsStored
  <2>4. StoreIsKnown'
    BY <1>2, <1>3 DEF OneAtWork, Busy, Loading, KeyIsLast, LoadedIsStored,
       StoreIsKnown
  <2> QED
    BY <2>1, <2>2, <2>3, <2>4
<1>4. ASSUME world = {}, TypeOK, OneAtWork, KeyIsLast, NothingTorn
      PROVE  NothingTorn'
  BY <1>2, <1>4 DEF OneAtWork, Busy, Loading, KeyIsLast, NothingTorn
<1> HIDE DEF TypeOK, Install, Turn, Changed, Goto
<1> QED
  BY <1>1, <1>2, <1>3, <1>4 DEF IInv, Calm

\* The store is made from the copy of the certificate.
LEMMA UpdateStep ==
    ASSUME IInv, NEW p \in Procs, Update(p)
    PROVE  IInv'
<1> USE CAAssumption DEF TypeOK, Update, Changed, Goto, files, store
<1>1. TypeOK'
  BY DEF IInv, Content, Loading
<1>2. /\ world' = world
      /\ Calm => {"overlap", "readError"} \cap world = {}
      /\ world = {} => Calm
  BY DEF Calm
<1>3. ASSUME Calm, TypeOK, OneAtWork, KeyIsLast, LoadedIsStored, StoreIsKnown
      PROVE  OneAtWork' /\ KeyIsLast' /\ LoadedIsStored' /\ StoreIsKnown'
  <2>1. OneAtWork'
    BY <1>2, <1>3 DEF OneAtWork, Busy, Loading
  <2>2. KeyIsLast'
    BY <1>2, <1>3 DEF OneAtWork, Busy, Loading, KeyIsLast
  <2>3. LoadedIsStored'
    BY <1>2, <1>3 DEF KeyIsLast, LoadedIsStored
  <2>4. StoreIsKnown'
    BY <1>2, <1>3 DEF OneAtWork, Busy, Loading, KeyIsLast, LoadedIsStored,
       StoreIsKnown
  <2> QED
    BY <2>1, <2>2, <2>3, <2>4
<1>4. ASSUME world = {}, TypeOK, OneAtWork, KeyIsLast, NothingTorn
      PROVE  NothingTorn'
  BY <1>2, <1>4 DEF OneAtWork, Busy, Loading, KeyIsLast, NothingTorn
<1> HIDE DEF TypeOK, Update, Changed, Goto
<1> QED
  BY <1>1, <1>2, <1>3, <1>4 DEF IInv, Calm

\* What is taken out is the CA of the files.
LEMMA UninstallStep ==
    ASSUME IInv, NEW p \in Procs, Uninstall(p)
    PROVE  IInv'
<1> USE CAAssumption DEF TypeOK, Uninstall, Turn, Changed, Goto, files, store
<1>1. TypeOK'
  BY DEF IInv, Content, Loading
<1>2. /\ world' = world
      /\ Calm => {"overlap", "readError"} \cap world = {}
      /\ world = {} => Calm
  BY DEF Calm
<1>3. ASSUME Calm, TypeOK, OneAtWork, KeyIsLast, LoadedIsStored, StoreIsKnown
      PROVE  OneAtWork' /\ KeyIsLast' /\ LoadedIsStored' /\ StoreIsKnown'
  <2>1. OneAtWork'
    BY <1>2, <1>3 DEF OneAtWork, Busy, Loading
  <2>2. KeyIsLast'
    BY <1>2, <1>3 DEF OneAtWork, Busy, Loading, KeyIsLast
  <2>3. LoadedIsStored'
    BY <1>2, <1>3 DEF KeyIsLast, LoadedIsStored
  <2>4. StoreIsKnown'
    BY <1>2, <1>3 DEF OneAtWork, Busy, Loading, KeyIsLast, LoadedIsStored,
       StoreIsKnown
  <2> QED
    BY <2>1, <2>2, <2>3, <2>4
<1>4. ASSUME world = {}, TypeOK, OneAtWork, KeyIsLast, NothingTorn
      PROVE  NothingTorn'
  BY <1>2, <1>4 DEF OneAtWork, Busy, Loading, KeyIsLast, NothingTorn
<1> HIDE DEF TypeOK, Uninstall, Turn, Changed, Goto
<1> QED
  BY <1>1, <1>2, <1>3, <1>4 DEF IInv, Calm

\* The store is made again without the copy.
LEMMA RefreshStep ==
    ASSUME IInv, NEW p \in Procs, Refresh(p)
    PROVE  IInv'
<1> USE CAAssumption DEF TypeOK, Refresh, Changed, Goto, files, store
<1>1. TypeOK'
  BY DEF IInv, Content, Loading
<1>2. /\ world' = world
      /\ Calm => {"overlap", "readError"} \cap world = {}
      /\ world = {} => Calm
  BY DEF Calm
<1>3. ASSUME Calm, TypeOK, OneAtWork, KeyIsLast, LoadedIsStored, StoreIsKnown
      PROVE  OneAtWork' /\ KeyIsLast' /\ LoadedIsStored' /\ StoreIsKnown'
  <2>1. OneAtWork'
    BY <1>2, <1>3 DEF OneAtWork, Busy, Loading
  <2>2. KeyIsLast'
    BY <1>2, <1>3 DEF OneAtWork, Busy, Loading, KeyIsLast
  <2>3. LoadedIsStored'
    BY <1>2, <1>3 DEF KeyIsLast, LoadedIsStored
  <2>4. StoreIsKnown'
    BY <1>2, <1>3 DEF OneAtWork, Busy, Loading, KeyIsLast, LoadedIsStored,
       StoreIsKnown
  <2> QED
    BY <2>1, <2>2, <2>3, <2>4
<1>4. ASSUME world = {}, TypeOK, OneAtWork, KeyIsLast, NothingTorn
      PROVE  NothingTorn'
  BY <1>2, <1>4 DEF OneAtWork, Busy, Loading, KeyIsLast, NothingTorn
<1> HIDE DEF TypeOK, Refresh, Changed, Goto
<1> QED
  BY <1>1, <1>2, <1>3, <1>4 DEF IInv, Calm

\* A process dies where it is.
LEMMA EndsStep ==
    ASSUME IInv, NEW p \in Procs, Ends(p)
    PROVE  IInv'
<1> USE CAAssumption DEF TypeOK, Ends, Goto, files, store
<1>1. TypeOK'
  BY DEF IInv, Content, Loading
<1>2. /\ world' = world
      /\ Calm => {"overlap", "readError"} \cap world = {}
      /\ world = {} => Calm
  BY DEF Calm
<1>3. ASSUME Calm, TypeOK, OneAtWork, KeyIsLast, LoadedIsStored, StoreIsKnown
      PROVE  OneAtWork' /\ KeyIsLast' /\ LoadedIsStored' /\ StoreIsKnown'
  <2>1. OneAtWork'
    BY <1>2, <1>3 DEF OneAtWork, Busy, Loading
  <2>2. KeyIsLast'
    BY <1>2, <1>3 DEF OneAtWork, Busy, Loading, KeyIsLast
  <2>3. LoadedIsStored'
    BY <1>2, <1>3 DEF KeyIsLast, LoadedIsStored
  <2>4. StoreIsKnown'
    BY <1>2, <1>3 DEF OneAtWork, Busy, Loading, KeyIsLast, LoadedIsStored,
       StoreIsKnown
  <2> QED
    BY <2>1, <2>2, <2>3, <2>4
<1>4. ASSUME world = {}, TypeOK, OneAtWork, KeyIsLast, NothingTorn
      PROVE  NothingTorn'
  BY <1>2, <1>4 DEF OneAtWork, Busy, Loading, KeyIsLast, NothingTorn
<1> HIDE DEF TypeOK, Ends, Goto
<1> QED
  BY <1>1, <1>2, <1>3, <1>4 DEF IInv, Calm

\* Issuing a leaf changes nothing but the cache.
LEMMA LeafForStep ==
    ASSUME IInv, NEW p \in Procs, NEW n \in Names, LeafFor(p, n)
    PROVE  IInv'
<1>1. /\ UNCHANGED <<files, store, pc, kind, crtPEM, ca>>
      /\ TypeOK => leaf' \in [Procs -> SUBSET Names]
  BY DEF LeafFor, TypeOK
<1>2. TypeOK'
  BY <1>1 DEF IInv, TypeOK, files, store, Content
<1> QED
  BY <1>1, <1>2 DEF IInv, Calm, OneAtWork, KeyIsLast, LoadedIsStored,
     StoreIsKnown, NothingTorn, files, store

\* The invariant is inductive.
LEMMA NextIInv == IInv /\ [Next]_vars => IInv'
<1> SUFFICES ASSUME IInv, [Next]_vars PROVE IInv'
  OBVIOUS
<1>1. CASE UNCHANGED vars
  BY <1>1 DEF vars, store, IInv, TypeOK, Content, Calm, OneAtWork, KeyIsLast,
     LoadedIsStored, StoreIsKnown, NothingTorn
<1> QED
  BY <1>1, ReadCrtStep, ReadKeyStep, OpenCrtStep, WriteCrtStep, OpenKeyStep,
     WriteKeyStep, InstallStep, UpdateStep, UninstallStep, RefreshStep,
     EndsStep, LeafForStep DEF Next

\* The invariant holds in every state of every execution.
THEOREM Invariance == Spec => []IInv
  BY InitIInv, NextIInv, PTL DEF Spec

\* A Load that nothing disturbs succeeds, whatever died before it.
THEOREM LoadTheorem == Spec => []LoadsSucceed
<1>1. IInv => LoadsSucceed
  BY DEF IInv, NothingTorn, LoadsSucceed
<1> QED
  BY <1>1, Invariance, PTL

\* Commands that do not overlap work with one CA.
THEOREM OneCATheorem == Spec => []OneCA
<1>1. IInv => OneCA
  BY DEF IInv, Calm, LoadedIsStored, OneCA
<1> QED
  BY <1>1, Invariance, PTL

\* After an install the leaves of every daemon chain to a trusted certificate.
THEOREM VerifyTheorem == Spec => []RoutesVerify
<1>1. IInv => RoutesVerify
  BY DEF IInv, TypeOK, Calm, LoadedIsStored, StoreIsKnown, RoutesVerify
<1> QED
  BY <1>1, Invariance, PTL

\* After an uninstall no CA of portless is trusted.
THEOREM UninstallTheorem == Spec => []UninstallRemoves
<1>1. IInv => UninstallRemoves
  BY DEF IInv, Calm, StoreIsKnown, UninstallRemoves
<1> QED
  BY <1>1, Invariance, PTL
=============================================================================
