--------------------------------- MODULE CA ---------------------------------
(***************************************************************************)
(* The local certificate authority (src/ca/ca.go) as the processes of the  *)
(* CLI use it: `serve --tls` loads it and issues a leaf per name, `ca      *)
(* install` loads it and hands the file ca.crt to the OS trust store, and  *)
(* `ca uninstall` takes it out again (src/cmd/portless/ca.go).             *)
(*                                                                         *)
(* The CA is two files, read one after the other and written one after     *)
(* the other, with no lock between processes.  os.WriteFile truncates the  *)
(* file and then writes it.  A generated CA is named after the process     *)
(* that generated it: a process loads once.  On darwin the trust store is  *)
(* changed by one command, on linux by two: one for the file the store is  *)
(* made from, one to make it again.                                        *)
(***************************************************************************)
CONSTANTS
  Procs,
  Names,       \* server names that clients ask for
  NoFile, Torn, None

ASSUME CAAssumption ==
  /\ NoFile # Torn /\ {NoFile, Torn, None} \cap Procs = {}
  /\ None \notin [cert : Procs, key : Procs]

VARIABLES
  world,     \* what happens in this behavior, see Hardships
  crt, key,  \* the files ca.crt and ca.key: whose CA they hold
  os,        \* the operating system
  dst,       \* linux: the certificate file the trust store is made from
  trusted,   \* the certificates in the OS trust store
  last,      \* the last command that has reported a change of the trust store
  pc, kind,  \* per process: where it is, and its command
  crtPEM,    \* per process: what it has read of ca.crt
  ca,        \* per process: the CA that Load has returned
  leaf       \* per process: the names CA.leaf has a certificate for

store == <<os, dst, trusted, last>>
vars == <<world, crt, key, store, pc, kind, crtPEM, ca, leaf>>
files == <<world, crt, key>>

Content == Procs \cup {NoFile, Torn}
Loading == {"readKey", "openCrt", "writeCrt", "openKey", "writeKey"}
Busy == Loading \cup {"copied", "unlinked"}

Hardships ==
  {"overlap",    \* a command runs while another one does
   "torn",       \* a process dies, or its write fails, inside os.WriteFile
   "readError"}  \* a read fails although the file exists

TypeOK ==
  /\ world \subseteq Hardships \* at most one at a time
  /\ crt \in Content /\ key \in Content
  /\ trusted \subseteq Procs
  /\ pc \in [Procs -> Loading \cup {"idle", "loaded", "copied", "unlinked",
                             "changed", "failed", "dead"}]
  /\ kind \in [Procs -> {"serve", "install", "uninstall"}]
  /\ os \in {"darwin", "linux"} /\ dst \in Content
  /\ last \in {"none", "installed", "removed"}
  /\ crtPEM \in [Procs -> Content]
  /\ ca \in [Procs -> [cert : Procs, key : Procs] \cup {None}]
  /\ leaf \in [Procs -> SUBSET Names]
  /\ \A p \in Procs : pc[p] \in {"loaded", "copied"} => ca[p] # None

Init ==
  /\ world \in {{}} \cup {{h} : h \in Hardships}
  /\ crt = NoFile /\ key = NoFile /\ trusted = {}
  /\ pc = [p \in Procs |-> "idle"] /\ kind \in [Procs -> {"serve", "install", "uninstall"}]
  /\ crtPEM = [p \in Procs |-> NoFile] /\ ca = [p \in Procs |-> None]
  /\ leaf = [p \in Procs |-> {}]
  /\ os \in {"darwin", "linux"} /\ dst = NoFile /\ last = "none"

Goto(p, l) == pc' = [pc EXCEPT ![p] = l]

Loaded(p, c, k) == Goto(p, "loaded") /\ ca' = [ca EXCEPT ![p] = [cert |-> c, key |-> k]]

\* A command may begin, or go on to the trust store.
Turn == "overlap" \in world \/ \A q \in Procs : pc[q] \notin Busy

\* Load up to its first os.ReadFile.
ReadCrt(p) ==
  /\ pc[p] = "idle" /\ kind[p] # "uninstall" /\ Turn
  /\ crtPEM' = [crtPEM EXCEPT ![p] = crt]
  /\ \/ Goto(p, "readKey")
     \* crtErr is not "does not exist": Load fails, after it has read the key.
     \/ "readError" \in world /\ crt # NoFile /\ Goto(p, "failed")
  /\ UNCHANGED <<files, store, kind, ca, leaf>>

\* fromPEM: both files must decode; nobody compares the two.
fromPEM(p, c, k) ==
  IF Torn \in {c, k} THEN Goto(p, "failed") /\ UNCHANGED ca ELSE Loaded(p, c, k)

\* Mutant: a certificate without a key is an error.
ReadKeyStrict(p) ==
  /\ pc[p] = "readKey"
  /\ \/ /\ crtPEM[p] = NoFile
        /\ Goto(p, "openCrt") /\ UNCHANGED ca
     \/ /\ crtPEM[p] # NoFile /\ key = NoFile
        /\ Goto(p, "failed") /\ UNCHANGED ca
     \/ /\ crtPEM[p] # NoFile /\ key # NoFile
        /\ fromPEM(p, crtPEM[p], key)
  /\ UNCHANGED <<files, store, kind, crtPEM, leaf>>

\* The second os.ReadFile, and what Load makes of the two: with any error
\* from the key, or no certificate, it generates a new CA.
ReadKey(p) ==
  /\ pc[p] = "readKey"
  /\ \/ /\ crtPEM[p] # NoFile /\ key # NoFile
        /\ fromPEM(p, crtPEM[p], key)
     \/ /\ \/ crtPEM[p] = NoFile \/ key = NoFile
           \/ "readError" \in world
        /\ Goto(p, "openCrt") /\ UNCHANGED ca
  /\ UNCHANGED <<files, store, kind, crtPEM, leaf>>

\* os.WriteFile of the certificate, and of the key.
OpenCrt(p) == /\ pc[p] = "openCrt" /\ Goto(p, "writeCrt") /\ crt' = Torn
              /\ UNCHANGED <<world, key, store, kind, crtPEM, ca, leaf>>

\* Mutant: a certificate that is there is not overwritten.
WriteCrtKeepsOld(p) == /\ pc[p] = "writeCrt" /\ Goto(p, "openKey")
                       /\ crt' = IF crtPEM[p] \in Procs THEN crtPEM[p] ELSE p
                       /\ UNCHANGED <<world, key, store, kind, crtPEM, ca, leaf>>

WriteCrt(p) == /\ pc[p] = "writeCrt" /\ Goto(p, "openKey") /\ crt' = p
               /\ UNCHANGED <<world, key, store, kind, crtPEM, ca, leaf>>

OpenKey(p) == /\ pc[p] = "openKey" /\ Goto(p, "writeKey") /\ key' = Torn
              /\ UNCHANGED <<world, crt, store, kind, crtPEM, ca, leaf>>

\* Mutant: the key is never persisted.
WriteKeyInMemory(p) == /\ pc[p] = "writeKey" /\ Loaded(p, p, p) /\ key' = NoFile
                       /\ UNCHANGED <<world, crt, store, kind, crtPEM, leaf>>

WriteKey(p) == /\ pc[p] = "writeKey" /\ Loaded(p, p, p) /\ key' = p
               /\ UNCHANGED <<world, crt, store, kind, crtPEM, leaf>>

\* A command on the trust store reports success.
Changed(p, how) == Goto(p, "changed") /\ last' = how

\* ca install, after the user has confirmed: darwin adds the file's certificate
\* to the store, linux copies the file first.
Install(p) ==
  /\ pc[p] = "loaded" /\ kind[p] = "install" /\ Turn
  /\ \/ /\ os = "darwin" /\ crt \in Procs \* it accepts certificates only
        /\ trusted' = trusted \cup {crt}
        /\ Changed(p, "installed") /\ UNCHANGED dst
     \/ /\ os = "linux" /\ crt # NoFile
        /\ dst' = crt
        /\ Goto(p, "copied") /\ UNCHANGED <<trusted, last>>
  /\ UNCHANGED <<os, files, kind, crtPEM, ca, leaf>>

\* update-ca-certificates makes the store again from the file, if that holds a
\* certificate.
Update(p) ==
  /\ pc[p] = "copied"
  /\ trusted' = {dst} \cap Procs
  /\ Changed(p, "installed")
  /\ UNCHANGED <<os, dst, files, kind, crtPEM, ca, leaf>>

\* Mutant: linux updates the store without removing its copy.
UninstallKeepsFile(p) ==
  /\ pc[p] = "idle" /\ kind[p] = "uninstall" /\ Turn
  /\ \/ /\ os = "darwin" /\ crt \in Procs
        /\ trusted' = trusted \ {crt}
        /\ Changed(p, "removed")
     \/ /\ os = "linux"
        /\ Goto(p, "unlinked") /\ UNCHANGED <<trusted, last>>
  /\ UNCHANGED <<os, dst, files, kind, crtPEM, ca, leaf>>

\* ca uninstall, which does not load the CA: darwin takes the certificate that
\* ca.crt holds out of the store, linux removes its copy first.
Uninstall(p) ==
  /\ pc[p] = "idle" /\ kind[p] = "uninstall" /\ Turn
  /\ \/ /\ os = "darwin" /\ crt \in Procs
        /\ trusted' = trusted \ {crt}
        /\ Changed(p, "removed") /\ UNCHANGED dst
     \/ /\ os = "linux"
        /\ dst' = NoFile
        /\ Goto(p, "unlinked") /\ UNCHANGED <<trusted, last>>
  /\ UNCHANGED <<os, files, kind, crtPEM, ca, leaf>>

\* update-ca-certificates --fresh.
Refresh(p) ==
  /\ pc[p] = "unlinked"
  /\ trusted' = {dst} \cap Procs
  /\ Changed(p, "removed")
  /\ UNCHANGED <<os, dst, files, kind, crtPEM, ca, leaf>>

\* LeafFor holds the lock of the CA, and caches what it issues.  x509 refuses to
\* sign with a key that is not the certificate's.
LeafFor(p, n) ==
  /\ pc[p] = "loaded" /\ kind[p] = "serve"
  /\ n \notin leaf[p] /\ ca[p].cert = ca[p].key
  /\ leaf' = [leaf EXCEPT ![p] = @ \cup {n}]
  /\ UNCHANGED <<files, store, pc, kind, crtPEM, ca>>

\* The process ends, is killed, or fails because it cannot write.
Ends(p) ==
  /\ pc[p] \notin {"idle", "dead"}
  /\ "torn" \in world \/ pc[p] \notin {"writeCrt", "writeKey"}
  /\ Goto(p, "dead")
  /\ UNCHANGED <<files, store, kind, crtPEM, ca, leaf>>

Next ==
  \E p \in Procs : \/ ReadCrt(p) \/ ReadKey(p)
                   \/ OpenCrt(p) \/ WriteCrt(p) \/ OpenKey(p) \/ WriteKey(p)
                   \/ Install(p) \/ Update(p)
                   \/ Uninstall(p) \/ Refresh(p)
                   \/ Ends(p)
                   \/ \E n \in Names : LeafFor(p, n)

Spec == Init /\ [][Next]_vars

(***************************************************************************)
(* A Load that is not disturbed succeeds, even after a process that died   *)
(* between the certificate and the key: "Load returns the CA stored in     *)
(* dir, generating and persisting a new one the first time"                *)
(* (src/ca/ca.go:36-37).  A torn file, of which os.WriteFile leaves one    *)
(* when the process dies inside it, makes every later Load fail.           *)
(* (The invariant includes TypeOK.)                                        *)
(***************************************************************************)
LoadsSucceed ==
  /\ TypeOK
  /\ world = {} => \A p \in Procs : pc[p] # "failed"

(***************************************************************************)
(* All processes work with the CA that was generated first: "second call   *)
(* loads the same CA" (src/ca/ca_test.go:35), whatever died in between.    *)
(* Of two that find none, each generates its own; and a read of the key    *)
(* that fails, for whatever reason, makes Load replace the CA.             *)
(***************************************************************************)
OneCA ==
  world \subseteq {"torn"} =>
    \A p, q \in Procs : ca[p] # None /\ ca[q] # None => ca[p] = ca[q]

(***************************************************************************)
(* "portless CA installed. https://<name> routes now verify."              *)
(* (src/cmd/portless/ca.go:85): as long as a ca install was the last to    *)
(* report, a daemon can issue leaves, and they chain to a trusted          *)
(* certificate.                                                            *)
(***************************************************************************)
RoutesVerify ==
  world \subseteq {"torn"} /\ last = "installed" =>
    \A p \in Procs : (pc[p] = "loaded" /\ kind[p] = "serve") =>
      ca[p].cert = ca[p].key /\ ca[p].cert \in trusted

(***************************************************************************)
(* "portless CA removed." (src/cmd/portless/ca.go:112): when a ca          *)
(* uninstall was the last to report, no CA of portless is trusted,         *)
(* whichever commands died between two steps before it.  Darwin removes    *)
(* what ca.crt holds now: when a failed read has made Load replace the CA, *)
(* the old one stays trusted.                                              *)
(***************************************************************************)
UninstallRemoves ==
  world \subseteq {"torn"} /\ last = "removed" =>
    trusted = {}
=============================================================================
