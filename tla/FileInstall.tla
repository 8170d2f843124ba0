------------------------------ MODULE FileInstall ------------------------------
(* install_files of the two migration tools: pb2zb installs the files of a
   verified bundle, rails2zb the blobs of a snapshot, into the storage tree of a
   data directory.  Several installers may run, each with a bundle of its own;
   a server may store a file at a destination, the origin of a file may change,
   a write may fail, and an installer may be killed and started again.        *)
EXTENDS Integers, FiniteSets

CONSTANTS
  Installers,
  N,            \* the plan has the files 1..N; a number is also a destination
  Contents,     \* what a file may hold, known by its digest
  None,         \* no file
  MaxFaults,    \* kills, failed writes, changed origins, stored files
  RailsRivals   \* may a rails2zb share the data directory with other writers?

ASSUME InstallConstants ==
  /\ N \in Nat /\ MaxFaults \in Nat /\ RailsRivals \in BOOLEAN /\ None \notin Contents

Files == 1..N

VARIABLES
  tool,       \* installer -> "pb", "rails"; "?" before it is started
  recorded,   \* installer -> the file's digest in its manifest
  origin,     \* installer -> what the file holds where it is installed from
  target,     \* destination -> content
  pc,         \* installer -> where install_files is
  at,         \* installer -> the file of the plan it is at
  reuse,      \* installer -> files its plan found in place
  temp,       \* installer -> content of its temporary file
  installed,  \* installer -> files it counts as installed
  faults

ivars == <<tool, recorded, origin, target, pc, at, reuse, temp, installed, faults>>

InstallInit ==
  /\ tool = [i \in Installers |-> "?"]
  /\ recorded = [i \in Installers |-> [f \in Files |-> None]]
  /\ origin = recorded
  /\ target = [f \in Files |-> None]
  /\ pc = [i \in Installers |-> "idle"]
  /\ at = [i \in Installers |-> 1]
  /\ reuse = [i \in Installers |-> {}]
  /\ temp = [i \in Installers |-> None]
  /\ installed = [i \in Installers |-> {}]
  /\ faults = 0

Goes(i, from, to) == pc[i] = from /\ pc' = [pc EXCEPT ![i] = to]
Busy(i) == pc[i] \notin {"idle", "done", "refused", "killed"}


-------------------------------------------------------------------------------
(* The operator starts an installer on a bundle: for pb2zb verify_bundle passed,
   so every file of the bundle is as recorded. *)
Launch(i) ==
  /\ Goes(i, "idle", "plan")
  /\ \E t \in {"pb", "rails"}, r \in [Files -> Contents] :
       /\ tool' = [tool EXCEPT ![i] = t]
       /\ recorded' = [recorded EXCEPT ![i] = r] /\ origin' = [origin EXCEPT ![i] = r]
  /\ \A j \in Installers : tool[j] # "?" /\ ~RailsRivals => "rails" \notin {tool'[i], tool[j]}
  /\ UNCHANGED <<target, at, reuse, temp, installed, faults>>

(* an installer that was killed or refused is started again, on the same bundle *)
Restart(i) ==
  /\ pc[i] \in {"killed", "refused"}
  /\ tool[i] = "rails" \/ origin[i] = recorded[i]
  /\ pc' = [pc EXCEPT ![i] = "plan"]
  /\ at' = [at EXCEPT ![i] = 1]
  /\ reuse' = [reuse EXCEPT ![i] = {}] /\ installed' = [installed EXCEPT ![i] = {}]
  /\ temp' = [temp EXCEPT ![i] = None]
  /\ UNCHANGED <<tool, recorded, origin, target, faults>>

Refused(i) == pc' = [pc EXCEPT ![i] = "refused"]

(* nothing is at the destination, or the recorded file *)
Fits(i, f) == target[f] \in {None, recorded[i][f]}

(* _file_install_plan: every destination is examined before the first file is
   installed *)
PlanFile(i) ==
  /\ pc[i] = "plan" /\ tool[i] = "pb" /\ at[i] \in Files
  /\ LET f == at[i]
     IN \/ /\ Fits(i, f)
           /\ reuse' = [reuse EXCEPT ![i] = IF target[f] = None THEN @ ELSE @ \cup {f}]
           /\ at' = [at EXCEPT ![i] = f + 1]
           /\ UNCHANGED pc
        \/ /\ ~Fits(i, f)
           /\ Refused(i) /\ UNCHANGED <<reuse, at>>
  /\ UNCHANGED <<tool, recorded, origin, target, temp, installed, faults>>

(* rails2zb makes no plan of the destinations *)
Planned(i) ==
  /\ Goes(i, "plan", "next") /\ (tool[i] = "rails" \/ at[i] \notin Files)
  /\ at' = [at EXCEPT ![i] = 1]
  /\ UNCHANGED <<tool, recorded, origin, target, reuse, temp, installed, faults>>

(* the loop of install_files: a file the plan found in place is not looked at again *)
Skip(i) ==
  /\ pc[i] = "next" /\ at[i] \in reuse[i]
  /\ at' = [at EXCEPT ![i] = @ + 1]
  /\ UNCHANGED <<tool, recorded, origin, target, pc, reuse, temp, installed, faults>>

(* rails2zb: the origin is digested, then the destination examined *)
Examine(i) ==
  /\ pc[i] = "next" /\ tool[i] = "rails" /\ at[i] \in Files
  /\ LET f == at[i]
     IN \/ /\ origin[i][f] # recorded[i][f] \/ target[f] \notin {None, origin[i][f]}
           /\ Refused(i) /\ UNCHANGED at
        \/ /\ origin[i][f] = recorded[i][f] /\ target[f] = origin[i][f]
           /\ at' = [at EXCEPT ![i] = f + 1] /\ UNCHANGED pc
        \/ /\ origin[i][f] = recorded[i][f] /\ target[f] = None
           /\ Goes(i, "next", "copy") /\ UNCHANGED at
  /\ UNCHANGED <<tool, recorded, origin, target, reuse, temp, installed, faults>>

(* the origin is copied to a temporary file beside the destination *)
Copy(i) ==
  /\ \/ Goes(i, "copy", "publish")
     \/ Goes(i, "next", "publish") /\ tool[i] = "pb" /\ at[i] \in Files \ reuse[i]
  /\ temp' = [temp EXCEPT ![i] = origin[i][at[i]]]
  /\ UNCHANGED <<tool, recorded, origin, target, at, reuse, installed, faults>>

(* Mutant: the copy is not digested. *)
IntactAlways(i) == TRUE

(* the copy has the recorded digest *)
Intact(i) == temp[i] = recorded[i][at[i]]

(* the digest of the copy is not the one recorded: the temporary file is removed *)
CopyChanged(i) ==
  /\ Goes(i, "publish", "refused") /\ ~Intact(i)
  /\ temp' = [temp EXCEPT ![i] = None]
  /\ UNCHANGED <<tool, recorded, origin, target, at, reuse, installed, faults>>

(* on to the next file; link or replace said whether this call made it *)
Advance(i, made) ==
  /\ pc' = [pc EXCEPT ![i] = "next"]
  /\ at' = [at EXCEPT ![i] = @ + 1]
  /\ installed' = [installed EXCEPT ![i] = IF made THEN @ \cup {at[i]} ELSE @]

(* Mutant: os.replace where pb2zb links. *)
LinkedOver(i) ==
  LET f == at[i]
  IN /\ target' = [target EXCEPT ![f] = temp[i]]
     /\ Advance(i, TRUE)

(* os.link fails on a name that exists: the same file there is reused *)
Linked(i) ==
  LET f == at[i]
  IN \/ target[f] = None /\ target' = [target EXCEPT ![f] = temp[i]] /\ Advance(i, TRUE)
     \/ target[f] = recorded[i][f] /\ UNCHANGED target /\ Advance(i, FALSE)
     \/ /\ target[f] \notin {None, recorded[i][f]}
        /\ Refused(i) /\ UNCHANGED <<target, at, installed>>

(* os.replace takes whatever is there away *)
Replaced(i) ==
  /\ target' = [target EXCEPT ![at[i]] = temp[i]]
  /\ Advance(i, TRUE)

Publish(i) ==
  /\ pc[i] = "publish" /\ Intact(i)
  /\ \/ tool[i] = "pb" /\ Linked(i)
     \/ tool[i] = "rails" /\ Replaced(i)
  /\ temp' = [temp EXCEPT ![i] = None]
  /\ UNCHANGED <<tool, recorded, origin, reuse, faults>>

Finish(i) ==
  /\ Goes(i, "next", "done") /\ at[i] \notin Files
  /\ UNCHANGED <<tool, recorded, origin, target, at, reuse, temp, installed, faults>>

-------------------------------------------------------------------------------
Fault == faults < MaxFaults /\ faults' = faults + 1

(* killed: its temporary file stays *)
Kill(i) ==
  /\ Fault /\ Busy(i)
  /\ pc' = [pc EXCEPT ![i] = "killed"]
  /\ UNCHANGED <<tool, recorded, origin, target, at, reuse, temp, installed>>

(* an OSError ends the run; the finally removes the temporary file *)
WriteFails(i) ==
  /\ Fault /\ pc[i] \in {"copy", "publish"}
  /\ Refused(i)
  /\ temp' = [temp EXCEPT ![i] = None]
  /\ UNCHANGED <<tool, recorded, origin, target, at, reuse, installed>>

OriginChanges(i, f) ==
  /\ Fault /\ tool[i] # "?"
  /\ \E c \in Contents \ {origin[i][f]} : origin' = [origin EXCEPT ![i][f] = c]
  /\ UNCHANGED <<tool, recorded, target, pc, at, reuse, temp, installed>>

(* a server, or a person, stores a file where there is none *)
Stored(f) ==
  /\ Fault /\ target[f] = None
  /\ RailsRivals \/ \A i \in Installers : tool[i] # "rails"
  /\ \E c \in Contents : target' = [target EXCEPT ![f] = c]
  /\ UNCHANGED <<tool, recorded, origin, pc, at, reuse, temp, installed>>

Step(i) ==
  \/ Restart(i) \/ PlanFile(i) \/ Planned(i) \/ Skip(i) \/ Examine(i) \/ Copy(i)
  \/ CopyChanged(i) \/ Publish(i) \/ Finish(i)

InstallNext ==
  \E i \in Installers :
    \/ Launch(i) \/ Step(i) \/ Kill(i) \/ WriteFails(i)
    \/ \E f \in Files : OriginChanges(i, f) \/ Stored(f)

InstallSpec == InstallInit /\ [][InstallNext]_ivars

(* every installer goes on, and the operator starts a failed one again *)
InstallFair == \A i \in Installers : WF_ivars(Step(i))
InstallFairSpec == InstallSpec /\ InstallFair

-------------------------------------------------------------------------------
InstallTypeOK ==
  /\ tool \in [Installers -> {"?", "pb", "rails"}]
  /\ recorded \in [Installers -> [Files -> Contents \cup {None}]]
  /\ origin \in [Installers -> [Files -> Contents \cup {None}]]
  /\ target \in [Files -> Contents \cup {None}]
  /\ pc \in [Installers -> {"idle", "plan", "next", "copy", "publish", "done", "refused", "killed"}]
  /\ at \in [Installers -> 1..(N + 1)]
  /\ reuse \in [Installers -> SUBSET Files] /\ installed \in [Installers -> SUBSET Files]
  /\ temp \in [Installers -> Contents \cup {None}]
  /\ faults \in 0..MaxFaults

(* A file at a destination is never replaced by another: "silently overwriting it
   would destroy evidence of a collision" (install_file_atomic of _core.py). *)
NoOverwrite ==
  [][\A f \in Files : target[f] # None => target'[f] = target[f]]_ivars

(* An installer that ends with success left every file of its bundle in place,
   also after it was killed and started again, and whatever ran beside it. *)
DoneIsComplete ==
  \A i \in Installers : pc[i] = "done" => \A f \in Files : target[f] = recorded[i][f]

===============================================================================
