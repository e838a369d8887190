---------------------------- MODULE UpdateProof ----------------------------
(***************************************************************************)
(* Proofs about Update: the types, what update_app works on, and what the  *)
(* version file says, whatever is cut off, fails or cannot be read.        *)
(***************************************************************************)
EXTENDS Update, SequenceTheorems, TLAPS

\* The stages of a boot between the comparison of the versions and the version file.
Updating == {"app", "tree", "update", "version"} \cup
            (IF result = "ok" THEN {"cleanup"} ELSE {})

\* What the programs carry from step to step: the version that was compared ...
Chosen ==
  stage \in Updating => imgVer \in Image /\ VerCheck(imgVer, firmVer)

\* ... the copy it was read from ...
Copied ==
  stage \in {"app", "tree"} => page["img"] = imgVer

\* ... the files unpacked from it ...
Unpacked ==
  /\ stage \in Updating \ {"app"} => page["app"] = imgVer
  /\ stage = "update" => page["tree"] = imgVer

\* ... and the sections installed so far.
Installed ==
  /\ stage = "update" =>
       \A s \in Section : page[s] = imgVer \/ \E i \in 1..Len(left) : left[i] = s
  /\ stage \in Updating \ {"app", "tree", "update"} => \A s \in Section : page[s] = imgVer

\* A fourth attempt is never made.
AttemptsLeft ==
  stage \in {"check", "copy", "parse", "app", "tree"} => tries < 3

\* The version that was compared with, if it could be read, is that of the disk until the
\* new one is written ...
FirmVerIsTrue ==
  stage \in {"check", "copy", "parse", "app", "tree", "update", "cleanup", "version"} =>
    firmVer \in {None, VersionOf(disk["ver"])}

\* ... and a version that is not on the disk yet is newer, and installed as programs see it.
PendingVersion ==
  page["ver"] # disk["ver"] =>
    /\ stage \in {"sync", "reboot"}
    /\ page["ver"] \in Image
    /\ firmVer = None \/ Newer(page["ver"], VersionOf(disk["ver"]))
    /\ \A s \in Section : page[s] = page["ver"]

IInv ==
  /\ TypeOK
  /\ Chosen
  /\ Copied
  /\ Unpacked
  /\ Installed
  /\ AttemptsLeft
  /\ FirmVerIsTrue
  /\ PendingVersion

-----------------------------------------------------------------------------
LEMMA NoSectionIsAFile ==
  /\ Section \subseteq File
  /\ {"img", "app", "tree", "ver"} \subseteq File
  /\ \A s \in Section : s \notin {"img", "app", "tree", "ver"}
  BY UpdateAssumption DEF File

LEMMA FirmVerType ==
  ASSUME NEW v \in Content
  PROVE  /\ FirmVer(v) \in {None, VersionOf(v)}
         /\ FirmVer(v) \in Image \cup {None, <<0, 0, 0>>}
  BY UpdateAssumption DEF FirmVer, VersionOf, Content

LEMMA Budgets ==
  ASSUME TypeOK, Fault \/ Works, UNCHANGED <<cuts, swaps>>
  PROVE  {faults', cuts', swaps'} \subseteq Nat
  BY UpdateAssumption DEF TypeOK, Fault, Works

LEMMA InitInv ==
  ASSUME Init
  PROVE  IInv
<1>1. page \in [File -> Content]
  BY UpdateAssumption, NoSectionIsAFile DEF Init, Content
<1>2. left \in Seq(Section)
  BY EmptySeq DEF Init
<1>3. medium \in Content \cup {Empty} /\ firmVer \in Image \cup {None, <<0, 0, 0>>}
  BY UpdateAssumption DEF Init, Content
<1>4. tries \in 0..3 /\ {faults, cuts, swaps} \subseteq Nat
  BY DEF Init
<1>5. TypeOK
  BY <1>1, <1>2, <1>3, <1>4 DEF Init, TypeOK, Stage
<1>. QED BY <1>5 DEF Init, IInv, AttemptsLeft, Updating, Chosen, Copied, Unpacked, Installed,
     FirmVerIsTrue, PendingVersion

-----------------------------------------------------------------------------
LEMMA BootInv ==
  ASSUME IInv, Boot
  PROVE  IInv'
<1>1. page["ver"] \in Content /\ page["ver"] = disk["ver"]
  BY NoSectionIsAFile DEF IInv, TypeOK, PendingVersion, Boot
<1>2. stage' \in {"check", "brick"}
  BY DEF Boot
<1>3. /\ firmVer' \in Image \cup {None, <<0, 0, 0>>}
      /\ firmVer' \in {None, VersionOf(disk["ver"])}
  BY <1>1, FirmVerType DEF Boot
<1>4. tries' \in 0..3
  BY DEF Boot
<1>5. TypeOK'
  BY <1>2, <1>3, <1>4, Budgets DEF IInv, TypeOK, Boot, Stage
<1>. QED BY <1>1, <1>2, <1>3, <1>5 DEF IInv, AttemptsLeft, Boot, Updating, Chosen, Copied,
     Unpacked, Installed, FirmVerIsTrue, PendingVersion

LEMMA FindImageInv ==
  ASSUME IInv, FindImage \/ NoImage
  PROVE  IInv'
<1>1. stage = "check" /\ stage' \in {"copy", "apps"} /\ UNCHANGED <<page, disk, volat, cuts, swaps>>
  BY DEF FindImage, NoImage
<1>2. medium' \in Content \cup {Empty} /\ (Fault \/ Works)
  BY DEF IInv, TypeOK, FindImage, NoImage, Content
<1>3. TypeOK'
  BY <1>1, <1>2, Budgets DEF IInv, TypeOK, volat, Stage
<1>. QED BY <1>1, <1>3 DEF IInv, AttemptsLeft, volat, Updating, Chosen, Copied, Unpacked, Installed,
     FirmVerIsTrue, PendingVersion

LEMMA CopyInv ==
  ASSUME IInv, Copy
  PROVE  IInv'
<1>1. /\ stage = "copy" /\ stage' = "parse" /\ UNCHANGED <<medium, disk, volat, cuts, swaps>>
      /\ Fault \/ Works
      /\ \E c \in Content : page' = [page EXCEPT !["img"] = c] \/ page' = page
  BY DEF Copy, Content
<1>2. page' \in [File -> Content] /\ \A f \in File : f # "img" => page'[f] = page[f]
  BY <1>1, NoSectionIsAFile DEF IInv, TypeOK
<1>3. TypeOK'
  BY <1>1, <1>2, Budgets, NoSectionIsAFile DEF IInv, TypeOK, volat, Stage
<1>. QED BY <1>1, <1>2, <1>3, NoSectionIsAFile DEF IInv, AttemptsLeft, volat, Updating,
     Chosen, Copied, Unpacked, Installed, FirmVerIsTrue, PendingVersion

\* A failed attempt leads back to the copy or to the reboot.
LEMMA FailedStage ==
  ASSUME TypeOK, AttemptsLeft, Failed, stage \in {"parse", "app", "tree"}
  PROVE  /\ tries' \in 0..3
         /\ (stage' = "copy" /\ tries' < 3) \/ stage' = "reboot"
  BY DEF TypeOK, AttemptsLeft, Failed

LEMMA ParseInv ==
  ASSUME IInv, Parse
  PROVE  IInv'
<1>1. /\ stage = "parse" /\ UNCHANGED <<medium, page, disk, firmVer, left, result, cuts, swaps>>
      /\ Fault \/ Works
  BY DEF Parse
<1>2. CASE Failed /\ shifted' \in {shifted, TRUE} /\ UNCHANGED imgVer
  <2>1. tries' \in 0..3 /\ ((stage' = "copy" /\ tries' < 3) \/ stage' = "reboot")
    BY <1>1, <1>2, FailedStage DEF IInv
  <2>2. TypeOK'
    BY <1>1, <1>2, <2>1, Budgets DEF IInv, TypeOK, Stage
  <2>. QED BY <1>1, <1>2, <2>1, <2>2 DEF IInv, AttemptsLeft, Updating, Chosen, Copied,
       Unpacked, Installed, FirmVerIsTrue, PendingVersion
<1>3. CASE /\ page["img"] \in Image /\ imgVer' = page["img"]
           /\ stage' = IF VerCheck(imgVer', firmVer) THEN "app" ELSE "apps"
           /\ UNCHANGED <<tries, shifted>>
  <2>1. TypeOK'
    BY <1>1, <1>3, Budgets DEF IInv, TypeOK, Stage
  <2>. QED BY <1>1, <1>3, <2>1 DEF IInv, AttemptsLeft, Updating, Chosen, Copied,
       Unpacked, Installed, FirmVerIsTrue, PendingVersion
<1>. QED BY <1>2, <1>3 DEF Parse

LEMMA ExtractAppInv ==
  ASSUME IInv, ExtractApp
  PROVE  IInv'
<1>1. /\ stage = "app" /\ disk' \in {page, disk} /\ (Fault \/ Works)
      /\ UNCHANGED <<medium, firmVer, imgVer, left, result, cuts, swaps>>
  BY DEF ExtractApp
<1>2. page["ver"] = disk["ver"] /\ page["img"] = imgVer /\ imgVer \in Image
  BY <1>1 DEF IInv, PendingVersion, Copied, Chosen, Updating
<1>3. /\ page' \in [File -> Content] /\ (\A f \in File : f # "app" => page'[f] = page[f])
  <2>1. page' = page \/ \E c \in Content : page' = [page EXCEPT !["app"] = c]
    BY <1>2 DEF ExtractApp, Content
  <2>. QED BY <2>1, NoSectionIsAFile DEF IInv, TypeOK
<1>4. CASE stage' = "tree" /\ page'["app"] = page["img"] /\ UNCHANGED <<tries, shifted>>
  <2>1. TypeOK'
    BY <1>1, <1>2, <1>3, <1>4, Budgets, NoSectionIsAFile DEF IInv, TypeOK, Stage
  <2>. QED BY <1>1, <1>2, <1>3, <1>4, <2>1, NoSectionIsAFile DEF IInv, AttemptsLeft, Updating,
       Chosen, Copied, Unpacked, Installed, FirmVerIsTrue, PendingVersion
<1>5. CASE Failed /\ shifted' = TRUE
  <2>1. tries' \in 0..3 /\ ((stage' = "copy" /\ tries' < 3) \/ stage' = "reboot")
    BY <1>1, <1>5, FailedStage DEF IInv
  <2>2. TypeOK'
    BY <1>1, <1>2, <1>3, <1>5, <2>1, Budgets, NoSectionIsAFile DEF IInv, TypeOK, Stage
  <2>. QED BY <1>1, <1>2, <1>3, <2>1, <2>2, NoSectionIsAFile DEF IInv, AttemptsLeft, Updating,
       Chosen, Copied, Unpacked, Installed, FirmVerIsTrue, PendingVersion
<1>. QED BY <1>4, <1>5, NoSectionIsAFile DEF ExtractApp, IInv, TypeOK

LEMMA ExtractTreeInv ==
  ASSUME IInv, ExtractTree
  PROVE  IInv'
<1>1. /\ stage = "tree" /\ shifted' = TRUE /\ (Fault \/ Works)
      /\ UNCHANGED <<medium, firmVer, imgVer, result, cuts, swaps>>
  BY DEF ExtractTree
<1>2. /\ page["ver"] = disk["ver"] /\ page["img"] = imgVer /\ page["app"] = imgVer
      /\ imgVer \in Image
  BY <1>1 DEF IInv, PendingVersion, Copied, Chosen, Unpacked, Updating
<1>3. /\ page' \in [File -> Content] /\ disk' \in {page, disk}
      /\ \A f \in File : f # "tree" => page'[f] = page[f]
  BY <1>2, NoSectionIsAFile DEF ExtractTree, IInv, TypeOK, Content
<1>4. CASE Failed /\ UNCHANGED left
  <2>1. tries' \in 0..3 /\ ((stage' = "copy" /\ tries' < 3) \/ stage' = "reboot")
    BY <1>1, <1>4, FailedStage DEF IInv
  <2>2. TypeOK'
    BY <1>1, <1>2, <1>3, <1>4, <2>1, Budgets, NoSectionIsAFile DEF IInv, TypeOK, Stage
  <2>. QED BY <1>1, <1>2, <1>3, <2>1, <2>2, NoSectionIsAFile DEF IInv, AttemptsLeft, Updating,
       Chosen, Copied, Unpacked, Installed, FirmVerIsTrue, PendingVersion
<1>5. CASE /\ page'["tree"] = page["img"] /\ left' = Bill /\ stage' = "update"
           /\ UNCHANGED tries
  <2>1. TypeOK'
    BY <1>1, <1>2, <1>3, <1>5, Budgets, NoSectionIsAFile, UpdateAssumption
       DEF IInv, TypeOK, Stage
  <2>2. \A s \in Section : \E i \in 1..Len(left') : left'[i] = s
    BY <1>5 DEF Section
  <2>. QED BY <1>1, <1>2, <1>3, <1>5, <2>1, <2>2, NoSectionIsAFile DEF IInv, AttemptsLeft,
       Updating, Chosen, Copied, Unpacked, Installed, FirmVerIsTrue, PendingVersion
<1>. QED BY <1>4, <1>5, NoSectionIsAFile DEF ExtractTree, IInv, TypeOK

-----------------------------------------------------------------------------
LEMMA InstallSectionInv ==
  ASSUME IInv, InstallSection
  PROVE  IInv'
<1>. DEFINE s == Head(left)
<1>1. /\ stage = "update" /\ left \in Seq(Section) /\ left # << >> /\ (Fault \/ Works)
      /\ UNCHANGED <<medium, disk, firmVer, imgVer, tries, shifted, cuts, swaps>>
  BY DEF InstallSection, IInv, TypeOK
<1>2. s \in Section /\ s = left[1] /\ Tail(left) \in Seq(Section)
  BY <1>1, HeadTailProperties
<1>3. /\ page["ver"] = disk["ver"] /\ page["tree"] = imgVer /\ page["app"] = imgVer
      /\ imgVer \in Image
  BY <1>1 DEF IInv, PendingVersion, Chosen, Unpacked, Updating
<1>4. /\ page' \in [File -> Content]
      /\ \A f \in File : f # s => page'[f] = page[f]
  BY <1>2, <1>3, NoSectionIsAFile DEF InstallSection, IInv, TypeOK, Content
<1>5. page'["app"] = imgVer /\ page'["tree"] = imgVer /\ page'["ver"] = page["ver"]
  BY <1>2, <1>3, <1>4, NoSectionIsAFile
<1>6. CASE page' = [page EXCEPT ![s] = page["tree"]] /\ left' = Tail(left)
           /\ UNCHANGED <<stage, result>>
  <2>1. TypeOK'
    BY <1>1, <1>2, <1>4, <1>5, <1>6, Budgets DEF IInv, TypeOK
  <2>2. page'[s] = imgVer
    BY <1>2, <1>3, <1>6, NoSectionIsAFile DEF IInv, TypeOK
  <2>3. ASSUME NEW t \in Section, page'[t] # imgVer
        PROVE  \E i \in 1..Len(left') : left'[i] = t
    <3>1. t # s /\ page[t] # imgVer
      BY <2>2, <2>3, <1>4, NoSectionIsAFile
    <3>2. PICK i \in 1..Len(left) : left[i] = t
      BY <3>1, <1>1 DEF IInv, Installed
    <3>3. i - 1 \in 1..Len(left') /\ left'[i - 1] = t
      BY <3>1, <3>2, <1>1, <1>2, <1>6, HeadTailProperties
    <3>. QED BY <3>3
  <2>. QED BY <1>1, <1>3, <1>5, <1>6, <2>1, <2>3 DEF IInv, AttemptsLeft, Updating, Chosen,
       Copied, Unpacked, Installed, FirmVerIsTrue, PendingVersion
<1>7. CASE result' \in {"error", "lost"} /\ stage' = "cleanup" /\ UNCHANGED left
  <2>1. TypeOK'
    BY <1>1, <1>2, <1>4, <1>5, <1>7, Budgets DEF IInv, TypeOK, Stage
  <2>. QED BY <1>1, <1>3, <1>5, <1>7, <2>1 DEF IInv, AttemptsLeft, Updating, Chosen,
       Copied, Unpacked, Installed, FirmVerIsTrue, PendingVersion
<1>. QED BY <1>6, <1>7 DEF InstallSection

LEMMA AllInstalledInv ==
  ASSUME IInv, AllInstalled
  PROVE  IInv'
<1>1. \A s \in Section : page[s] = imgVer
  BY DEF AllInstalled, IInv, Installed
<1>2. TypeOK'
  BY DEF AllInstalled, budget, IInv, TypeOK, Stage
<1>3. /\ stage = "update" /\ stage' = "cleanup" /\ result' = "ok"
      /\ UNCHANGED <<page, disk, firmVer, imgVer>>
  BY DEF AllInstalled
<1>4. Chosen' /\ Copied' /\ AttemptsLeft' /\ FirmVerIsTrue' /\ PendingVersion'
  BY <1>3 DEF IInv, Updating, Chosen, Copied, AttemptsLeft, FirmVerIsTrue, PendingVersion
<1>5. Unpacked' /\ Installed'
  BY <1>1, <1>3 DEF IInv, Updating, Unpacked, Installed
<1>. QED BY <1>2, <1>4, <1>5 DEF IInv

LEMMA CleanupInv ==
  ASSUME IInv, Cleanup
  PROVE  IInv'
<1>1. /\ page' \in [File -> Content]
      /\ \A f \in File : f \notin {"img", "tree"} => page'[f] = page[f]
  BY NoSectionIsAFile DEF Cleanup, IInv, TypeOK, Content
<1>2. \/ result = "ok" /\ stage' = "version"
      \/ result # "ok" /\ stage' \in {"reboot", "stuck"}
  BY DEF Cleanup, IInv, TypeOK
<1>3. page'["app"] = page["app"] /\ page'["ver"] = page["ver"]
      /\ \A s \in Section : page'[s] = page[s]
  BY <1>1, NoSectionIsAFile
<1>4. TypeOK'
  BY <1>1, <1>2, <1>3 DEF Cleanup, volat, budget, IInv, TypeOK, Stage
<1>5. stage = "cleanup" /\ UNCHANGED <<disk, volat>>
  BY DEF Cleanup
<1>6. Chosen' /\ Copied' /\ AttemptsLeft' /\ FirmVerIsTrue'
  BY <1>2, <1>5 DEF volat, IInv, Updating, Chosen, Copied, AttemptsLeft, FirmVerIsTrue
<1>7. Unpacked' /\ Installed' /\ PendingVersion'
  BY <1>2, <1>3, <1>5 DEF volat, IInv, Updating, Unpacked, Installed, PendingVersion
<1>. QED BY <1>4, <1>6, <1>7 DEF IInv

LEMMA WriteVersionInv ==
  ASSUME IInv, WriteVersion
  PROVE  IInv'
<1>1. /\ stage = "version" /\ UNCHANGED <<medium, disk, volat, cuts, swaps>>
      /\ Fault \/ Works
  BY DEF WriteVersion
<1>2. /\ imgVer \in Image /\ (firmVer = None \/ Newer(imgVer, VersionOf(disk["ver"])))
      /\ \A s \in Section : page[s] = imgVer
      /\ page["ver"] = disk["ver"]
  BY <1>1 DEF IInv, Updating, Chosen, VerCheck, Installed, FirmVerIsTrue, PendingVersion
<1>3. CASE page' = [page EXCEPT !["ver"] = imgVer] /\ stage' = "sync"
  <2>1. page' \in [File -> Content] /\ page'["ver"] = imgVer
    BY <1>2, <1>3, NoSectionIsAFile DEF IInv, TypeOK, Content
  <2>2. \A s \in Section : page'[s] = imgVer
    BY <1>2, <1>3, NoSectionIsAFile DEF IInv, TypeOK
  <2>3. TypeOK'
    BY <1>1, <1>2, <1>3, <2>1, Budgets, UpdateAssumption DEF volat, IInv, TypeOK, Stage
  <2>. QED BY <1>1, <1>2, <1>3, <2>1, <2>2, <2>3 DEF volat, IInv, AttemptsLeft, Updating,
       Chosen, Copied, Unpacked, Installed, FirmVerIsTrue, PendingVersion
<1>4. CASE UNCHANGED page /\ stage' = "reboot"
  <2>1. TypeOK'
    BY <1>1, <1>4, Budgets DEF volat, IInv, TypeOK, Stage
  <2>. QED BY <1>1, <1>2, <1>4, <2>1 DEF volat, IInv, AttemptsLeft, Updating,
       Chosen, Copied, Unpacked, Installed, FirmVerIsTrue, PendingVersion
<1>. QED BY <1>3, <1>4 DEF WriteVersion

LEMMA SyncInv ==
  ASSUME IInv, SyncVersion \/ Reboot
  PROVE  IInv'
<1>1. /\ disk' = page /\ stage' \in {"reboot", "off"}
      /\ UNCHANGED <<medium, page, volat, budget>>
  BY DEF SyncVersion, Reboot
<1>2. TypeOK'
  BY <1>1 DEF volat, budget, IInv, TypeOK, Stage
<1>. QED BY <1>1, <1>2 DEF volat, IInv, AttemptsLeft, Updating,
     Chosen, Copied, Unpacked, Installed, FirmVerIsTrue, PendingVersion

-----------------------------------------------------------------------------
LEMMA WriteBackInv ==
  ASSUME IInv, NEW f \in File, WriteBack(f)
  PROVE  IInv'
<1>1. UNCHANGED <<stage, medium, page, volat, budget>>
  BY DEF WriteBack
<1>2. /\ disk' \in [File -> Content]
      /\ page["ver"] = disk["ver"] => disk'["ver"] = disk["ver"]
      /\ \/ disk'["ver"] \in {disk["ver"], page["ver"]}
         \/ VersionOf(disk'["ver"]) = VersionOf(disk["ver"])
  <2>1. \E c \in Content : disk' = [disk EXCEPT ![f] = c]
    BY NoSectionIsAFile DEF WriteBack, IInv, TypeOK, Content
  <2>2. CASE f # "ver"
    BY <2>1, <2>2, NoSectionIsAFile DEF IInv, TypeOK
  <2>3. CASE f = "ver"
    <3>1. page["ver"] # disk["ver"]
      BY <2>3 DEF WriteBack
    <3>2. \/ disk'["ver"] = page["ver"]
          \/ disk'["ver"] = Torn /\ disk["ver"] \notin Image
      BY <2>3, NoSectionIsAFile DEF WriteBack, IInv, TypeOK
    <3>. QED BY <2>1, <3>1, <3>2, UpdateAssumption DEF IInv, TypeOK, VersionOf
  <2>. QED BY <2>2, <2>3
<1>3. TypeOK'
  BY <1>1, <1>2 DEF volat, budget, IInv, TypeOK
<1>4. FirmVerIsTrue'
  BY <1>1, <1>2 DEF volat, IInv, FirmVerIsTrue, PendingVersion
<1>. QED BY <1>1, <1>2, <1>3, <1>4 DEF volat, IInv, AttemptsLeft, Updating,
     Chosen, Copied, Unpacked, Installed, PendingVersion

LEMMA DeviceInv ==
  ASSUME IInv, PowerCut \/ ChangeMedium \/ UNCHANGED vars
  PROVE  IInv'
<1>1. CASE PowerCut
  <2>1. /\ page' = disk /\ stage' = "off" /\ UNCHANGED <<medium, disk, volat>>
        /\ cuts' = cuts + 1 /\ UNCHANGED <<faults, swaps>>
    BY <1>1 DEF PowerCut
  <2>2. TypeOK'
    BY <2>1 DEF volat, IInv, TypeOK, Stage
  <2>. QED BY <2>1, <2>2 DEF PowerCut, IInv, AttemptsLeft, Updating, Chosen, Copied, Unpacked,
       Installed, FirmVerIsTrue, PendingVersion
<1>2. CASE ChangeMedium \/ UNCHANGED vars
  <2>1. UNCHANGED <<stage, page, disk, volat>>
    BY <1>2 DEF ChangeMedium, vars, prog, volat
  <2>2. medium' \in Content \cup {Empty} /\ {faults', cuts', swaps'} \subseteq Nat
    BY <1>2, UpdateAssumption DEF ChangeMedium, vars, prog, budget, IInv, TypeOK
  <2>3. TypeOK'
    BY <2>1, <2>2 DEF volat, IInv, TypeOK
  <2>. QED BY <2>1, <2>3 DEF volat, IInv, AttemptsLeft, Updating, Chosen, Copied, Unpacked,
       Installed, FirmVerIsTrue, PendingVersion
<1>. QED BY <1>1, <1>2

LEMMA NextInv ==
  ASSUME IInv, [Next]_vars
  PROVE  IInv'
<1>1. CASE UpdateCheck
  BY <1>1, BootInv, FindImageInv, CopyInv, ParseInv, ExtractAppInv, ExtractTreeInv
     DEF UpdateCheck
<1>2. CASE UpdateApp
  BY <1>2, InstallSectionInv, AllInstalledInv, CleanupInv, WriteVersionInv, SyncInv
     DEF UpdateApp
<1>3. CASE Device
  BY <1>3, SyncInv, WriteBackInv, DeviceInv DEF Device
<1>. QED BY <1>1, <1>2, <1>3, DeviceInv DEF Next

\* The inductive invariant of the update.
THEOREM UpdateInvariance == Spec => []IInv
<1>1. Init => IInv
  BY InitInv
<1>2. IInv /\ [Next]_vars => IInv'
  BY NextInv
<1>. QED BY <1>1, <1>2, PTL DEF Spec

\* The variables of the update keep their types: no fourth attempt, no torn
\* version file.
THEOREM UpdateTypeCorrect == Spec => []TypeOK
<1>1. IInv => TypeOK
  BY DEF IInv
<1>. QED BY <1>1, UpdateInvariance, PTL

\* update_app and the tree it installs come from one whole image, the one whose
\* version was compared (update_check, main.cpp), after any cuts and failures.
THEOREM UpdaterAlwaysMatches == Spec => []UpdaterMatches
<1>1. IInv => UpdaterMatches
  BY DEF IInv, UpdaterMatches, Updating, Chosen, Unpacked
<1>. QED BY <1>1, UpdateInvariance, PTL

-----------------------------------------------------------------------------
\* A step that changes the version on the disk writes the pending one, or leaves an empty
\* file where there was no version.
LEMMA VersionStep ==
  ASSUME IInv, [Next]_vars, disk'["ver"] # disk["ver"]
  PROVE  /\ page["ver"] # disk["ver"]
         /\ \/ disk'["ver"] = page["ver"]
            \/ disk'["ver"] = Torn /\ disk["ver"] \notin Image
<1>1. stage \notin {"sync", "reboot"} => page["ver"] = disk["ver"]
  BY DEF IInv, PendingVersion
<1>2. CASE SyncVersion \/ Reboot
  <2>1. disk' = page
    BY <1>2 DEF SyncVersion, Reboot
  <2>. QED BY <2>1
<1>3. CASE \E f \in File : WriteBack(f)
  <2>1. PICK f \in File : WriteBack(f)
    BY <1>3
  <2>2. f = "ver"
    BY <2>1, NoSectionIsAFile DEF WriteBack, IInv, TypeOK
  <2>. QED BY <2>1, <2>2, NoSectionIsAFile DEF WriteBack, IInv, TypeOK
<1>4. CASE ExtractApp \/ ExtractTree
  <2>1. disk' \in {page, disk} /\ stage \in {"app", "tree"}
    BY <1>4 DEF ExtractApp, ExtractTree
  <2>. QED BY <1>1, <2>1
<1>5. CASE \/ Boot \/ FindImage \/ NoImage \/ Copy \/ Parse \/ InstallSection \/ AllInstalled
           \/ Cleanup \/ WriteVersion \/ PowerCut \/ ChangeMedium \/ UNCHANGED vars
  <2>1. disk' = disk
    BY <1>5 DEF Boot, FindImage, NoImage, Copy, Parse, InstallSection, AllInstalled, Cleanup,
       WriteVersion, PowerCut, ChangeMedium, vars, prog
  <2>. QED BY <2>1
<1>. QED BY <1>2, <1>3, <1>4, <1>5 DEF Next, UpdateCheck, UpdateApp, Device

\* The version on the disk becomes that of an image only when every section has it, as
\* programs see them, in whatever order the file system writes them back (update_app.cpp,
\* update_sections and update_ver2file).
THEOREM VersionAlwaysInstalled == Spec => VersionIsInstalled
<1>1. IInv /\ [Next]_vars =>
        [disk'["ver"] # disk["ver"] /\ disk'["ver"] \in Image =>
           \A s \in Section : page[s] = disk'["ver"]]_vars
  <2>1. ASSUME IInv, [Next]_vars, disk'["ver"] # disk["ver"], disk'["ver"] \in Image
        PROVE  \A s \in Section : page[s] = disk'["ver"]
    BY <2>1, VersionStep, UpdateAssumption DEF IInv, PendingVersion
  <2>. QED BY <2>1
<1>. QED BY <1>1, UpdateInvariance, PTL DEF Spec, VersionIsInstalled

\* isNeedUpdate agrees with the order of versions.
LEMMA NewerIsAbove ==
  ASSUME NEW v, NEW w, Newer(v, w)
  PROVE  Above(v, w)
<1>1. CASE v[1] > w[1]
  <2>1. 1 \in 1..3 /\ \A j \in 1..(1 - 1) : v[j] = w[j]
    OBVIOUS
  <2>. QED BY <1>1, <2>1 DEF Above
<1>2. CASE v[1] = w[1] /\ v[2] > w[2]
  <2>1. 2 \in 1..3 /\ \A j \in 1..(2 - 1) : v[j] = w[j]
    BY <1>2
  <2>. QED BY <1>2, <2>1 DEF Above
<1>3. CASE v[1] = w[1] /\ v[2] = w[2] /\ v[3] > w[3]
  <2>1. 3 \in 1..3 /\ \A j \in 1..(3 - 1) : v[j] = w[j]
    BY <1>3
  <2>. QED BY <1>3, <2>1 DEF Above
<1>. QED BY <1>1, <1>2, <1>3 DEF Newer

\* The version on the disk only goes up, whatever media are put in and whatever fails, in
\* every boot in which update_check could read it (upateVerCheck).
THEOREM NeverDowngraded == Spec => NoDowngrade
<1>1. IInv /\ [Next]_vars =>
        [disk'["ver"] # disk["ver"] =>
           \/ disk'["ver"] = Torn /\ disk["ver"] \notin Image
           \/ Above(disk'["ver"], VersionOf(disk["ver"]))
           \/ firmVer = None]_vars
  <2>1. ASSUME IInv, [Next]_vars, disk'["ver"] # disk["ver"]
        PROVE  \/ disk'["ver"] = Torn /\ disk["ver"] \notin Image
               \/ Above(disk'["ver"], VersionOf(disk["ver"]))
               \/ firmVer = None
    BY <2>1, VersionStep, NewerIsAbove DEF IInv, PendingVersion
  <2>. QED BY <2>1
<1>. QED BY <1>1, UpdateInvariance, PTL DEF Spec, NoDowngrade
=============================================================================
