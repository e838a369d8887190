------------------------------- MODULE Update -------------------------------
(***************************************************************************)
(* The update of the device at boot: update_check (src/update_check/       *)
(* main.cpp) looks for an image on the medium, copies and unpacks it, and  *)
(* update_app (src/update_app/update_app.cpp) installs its sections and    *)
(* writes the version file, over power cuts, failing copies and media that *)
(* come and go.                                                            *)
(*                                                                         *)
(* page is what a program reads, disk what survives a power cut.  A torn   *)
(* file was written in part.  A section, the image, the new update_app and *)
(* the unpacked tree are each one file here, whose content is the version  *)
(* it comes from.                                                          *)
(*                                                                         *)
(* The file system is external: a dirty file may reach the disk at any     *)
(* time, whole or in part, before or after other files.  Only a file that  *)
(* is renamed over a whole one takes its content to the disk with it       *)
(* (ext4, auto_da_alloc).                                                  *)
(***************************************************************************)
EXTENDS Naturals, Sequences

CONSTANTS
  Image,              \* the versions of the images, <<major, minor, release>>
  FirstVers,          \* the versions the device may have at first, None without a version file
  Bill,               \* bill.list: the sections, in order
  Firmware, Bin,      \* the camera's firmware; the programs that boot the device
  Media,              \* what a medium may hold
  None, Empty, Torn,
  MaxFaults, MaxCuts, MaxSwaps  \* bounds: failing calls, power cuts, changes of the medium

VARIABLES
  stage,      \* where the boot is
  medium,     \* what is in the slot: None (no medium or no image), Empty, Torn or a version
  page, disk, \* the files, as programs see them and as a power cut leaves them
  firmVer,    \* sys.firm_ver, None as long as it is not set
  imgVer,     \* sys.img_ver
  tries,      \* the failed attempts to unpack the image in this boot
  shifted,    \* iPro2UpdateOffset no longer starts from 0
  left,       \* the sections still to install
  result,     \* what start_update_app returns: "ok", an ERR_ code ("error") or -1 ("lost")
  faults, cuts, swaps

prog   == <<stage, medium, page, disk, firmVer, imgVer, tries, shifted, left, result>>
volat  == <<firmVer, imgVer, tries, shifted, left, result>>
budget == <<faults, cuts, swaps>>
vars   == <<prog, budget>>

Section == {Bill[i] : i \in 1..Len(Bill)}
File    == Section \cup {"img", "app", "tree", "ver"}
Content == Image \cup {None, Torn}
Stage   == {"off", "check", "copy", "parse", "app", "tree", "update", "cleanup", "version",
            "sync", "reboot", "apps", "stuck", "brick"}

ASSUME UpdateAssumption ==
  /\ Image \subseteq Nat \X Nat \X Nat
  /\ Bill \in Seq(Section) /\ Bin \in Section
  /\ Section \cap {"img", "app", "tree", "ver"} = {}
  /\ None \notin Image /\ Torn \notin Image /\ None # Torn
  /\ FirstVers \subseteq Image \cup {None}
  /\ Media \subseteq Content \cup {Empty}
  /\ {MaxFaults, MaxCuts, MaxSwaps} \subseteq Nat

-----------------------------------------------------------------------------
\* A mutant of Newer: the minor numbers count whatever the major ones are.
NewerByMinor(v, w) ==
  \/ v[1] > w[1]
  \/ v[2] > w[2]
  \/ v[1] = w[1] /\ v[2] = w[2] /\ v[3] > w[3]

\* isNeedUpdate: v is newer than w.
Newer(v, w) ==
  \/ v[1] > w[1]
  \/ v[1] = w[1] /\ v[2] > w[2]
  \/ v[1] = w[1] /\ v[2] = w[2] /\ v[3] > w[3]

\* upateVerCheck: any image will do when sys.firm_ver is not set.
VerCheck(v, w) == w = None \/ Newer(v, w)

\* setLastFirmVer2Prop, of a version file that can be read: 0.0.0 when there is no file,
\* and the property is not set when there is nothing in it.
FirmVer(ver) == CASE ver = None -> <<0, 0, 0>>
                  [] ver = Torn -> None
                  [] OTHER      -> ver

Fault == faults < MaxFaults /\ faults' = faults + 1
Works == UNCHANGED faults

Init ==
  /\ stage = "off"
  /\ medium \in Media
  /\ \E v \in FirstVers :
       page = [f \in File |-> IF f \in Section \cup {"app", "ver"} THEN v ELSE None]
  /\ disk = page
  /\ firmVer = None /\ imgVer = None
  /\ tries = 0 /\ shifted = FALSE
  /\ left = << >> /\ result = "ok"
  /\ faults = 0 /\ cuts = 0 /\ swaps = 0

-----------------------------------------------------------------------------
(***************************************************************************)
(* update_check                                                            *)
(***************************************************************************)
\* The start of init and update_check; torn programs may not boot.  A version file that
\* is there but cannot be opened or read leaves sys.firm_ver unset.
Boot ==
  /\ stage = "off"
  /\ \/ page[Bin] # Torn /\ stage' = "check"
     \/ page[Bin] = Torn /\ stage' \in {"check", "brick"}
  /\ \/ Works /\ firmVer' = FirmVer(page["ver"])
     \/ page["ver"] # None /\ Fault /\ firmVer' = None
  /\ imgVer' = None
  /\ tries' = 0 /\ shifted' = FALSE
  /\ UNCHANGED <<medium, page, disk, left, result, cuts, swaps>>

\* The wait for a medium and the checks of the file; a slow medium is missed.
FindImage ==
  /\ stage = "check" /\ medium \in Image \cup {Torn} /\ Works
  /\ stage' = "copy"
  /\ UNCHANGED <<medium, page, disk, volat, cuts, swaps>>

NoImage ==
  /\ stage = "check"
  /\ \/ medium \notin Image \cup {Torn} /\ Works
     \/ medium \in Image \cup {Torn} /\ Fault
  /\ stage' = "apps"
  /\ medium' = IF medium = Empty THEN None ELSE medium
  /\ UNCHANGED <<page, disk, volat, cuts, swaps>>

\* A mutant of Copy: a copy that is there already is not made again.
CopyOnce ==
  /\ stage = "copy" /\ Works
  /\ page' = IF page["img"] = None /\ medium \in Image \cup {Torn}
             THEN [page EXCEPT !["img"] = medium] ELSE page
  /\ stage' = "parse"
  /\ UNCHANGED <<medium, disk, volat, cuts, swaps>>

\* copyUpdateFile2Memory.  Its result is not looked at: an older copy may stay.
Copy ==
  /\ stage = "copy"
  /\ \/ /\ medium \in Image \cup {Torn} /\ Works
        /\ page' = [page EXCEPT !["img"] = medium]
     \/ /\ medium \in Image \cup {Torn} /\ Fault
        /\ \/ page' = [page EXCEPT !["img"] = Torn]
           \/ UNCHANGED page
     \/ medium \notin Image \cup {Torn} /\ Works /\ UNCHANGED page
  /\ stage' = "parse"
  /\ UNCHANGED <<medium, disk, volat, cuts, swaps>>

\* A mutant of Failed: the loop does not count up to the reboot.
FailedForEver ==
  /\ tries' = tries + 1
  /\ stage' = "copy"

\* The loop of main over getUpdateAppAndPro2update: three attempts, then a reboot.  Until
\* it comes main goes on and has the applications started, which write none of the files.
Failed ==
  /\ tries' = tries + 1
  /\ stage' = IF tries' < 3 THEN "copy" ELSE "reboot"

\* getUpdateAppAndPro2update up to the check of the version.
Parse ==
  /\ stage = "parse"
  /\ \/ /\ page["img"] \notin Image /\ Works
        /\ Failed
        /\ UNCHANGED <<imgVer, shifted>>
     \/ /\ page["img"] \in Image /\ Fault
        /\ Failed
        /\ shifted' \in {shifted, TRUE}
        /\ UNCHANGED imgVer
     \/ /\ page["img"] \in Image /\ Works
        /\ imgVer' = page["img"]
        /\ stage' = IF VerCheck(imgVer', firmVer) THEN "app" ELSE "apps"
        /\ UNCHANGED <<tries, shifted>>
  /\ UNCHANGED <<medium, page, disk, firmVer, left, result, cuts, swaps>>

\* A mutant of ExtractApp: the result of tar_zip is not looked at.
ExtractAppUnchecked ==
  /\ stage = "app"
  /\ disk' = page
  /\ \/ Works /\ page' = [page EXCEPT !["app"] = page["img"]]
     \/ Fault /\ page' = [page EXCEPT !["app"] = Torn]
  /\ stage' = "tree"
  /\ UNCHANGED <<medium, firmVer, imgVer, tries, shifted, left, result, cuts, swaps>>

\* gen_file (which syncs) and tar_zip of update_app.zip, over the installed update_app;
\* either may fail.
ExtractApp ==
  /\ stage = "app"
  /\ \/ /\ Works
        /\ disk' = page
        /\ page' = [page EXCEPT !["app"] = page["img"]]
        /\ stage' = "tree"
        /\ UNCHANGED <<tries, shifted>>
     \/ /\ Fault
        /\ \/ disk' \in {page, disk} /\ UNCHANGED page
           \/ disk' = page /\ page' = [page EXCEPT !["app"] = Torn]
        /\ Failed
        /\ shifted' = TRUE
  /\ UNCHANGED <<medium, firmVer, imgVer, left, result, cuts, swaps>>

\* getPro2UpdatePackage: at a wrong offset it finds no header, else the tree is
\* unpacked and sys.uc_update_app starts update_app.
ExtractTree ==
  /\ stage = "tree"
  /\ shifted' = TRUE
  /\ \/ /\ shifted /\ Works
        /\ Failed
        /\ UNCHANGED <<page, disk, left>>
     \/ /\ ~shifted /\ Fault
        /\ \/ disk' \in {page, disk} /\ UNCHANGED page
           \/ disk' = page /\ page' = [page EXCEPT !["tree"] = Torn]
        /\ Failed
        /\ UNCHANGED left
     \/ /\ ~shifted /\ Works
        /\ disk' = page
        /\ page' = [page EXCEPT !["tree"] = page["img"]]
        /\ left' = Bill
        /\ stage' = "update"
        /\ UNCHANGED tries
  /\ UNCHANGED <<medium, firmVer, imgVer, result, cuts, swaps>>

-----------------------------------------------------------------------------
(***************************************************************************)
(* update_app                                                              *)
(***************************************************************************)
\* A mutant of InstallSection: a failing section does not end the update.
InstallSectionGoesOn ==
  /\ stage = "update" /\ left # << >>
  /\ \/ Works /\ page' = [page EXCEPT ![Head(left)] = page["tree"]]
     \/ Fault /\ page' = [page EXCEPT ![Head(left)] = Torn]
  /\ left' = Tail(left)
  /\ UNCHANGED <<stage, result, medium, disk, firmVer, imgVer, tries, shifted, cuts, swaps>>

\* update_sections on one section: section_cp, and for the firmware the tool
\* upgrade, which may fail or be killed.
InstallSection ==
  /\ stage = "update" /\ left # << >>
  /\ LET s == Head(left) IN
       \/ /\ Works
          /\ page' = [page EXCEPT ![s] = page["tree"]]
          /\ left' = Tail(left)
          /\ UNCHANGED <<stage, result>>
       \/ /\ Fault
          /\ page' = [page EXCEPT ![s] = Torn]
          /\ result' = "error" /\ stage' = "cleanup"
          /\ UNCHANGED left
       \/ /\ s = Firmware /\ Fault
          /\ page' = [page EXCEPT ![s] = page["tree"]]
          /\ result' \in {"error", "lost"} /\ stage' = "cleanup"
          /\ UNCHANGED left
  /\ UNCHANGED <<medium, disk, firmVer, imgVer, tries, shifted, cuts, swaps>>

AllInstalled ==
  /\ stage = "update" /\ left = << >>
  /\ result' = "ok"
  /\ stage' = "cleanup"
  /\ UNCHANGED <<medium, page, disk, firmVer, imgVer, tries, shifted, left, budget>>

\* handleUpdateResult: rm -rf /mnt/update, then by the result; -1 is no case of it.
Cleanup ==
  /\ stage = "cleanup"
  /\ page' = [page EXCEPT !["img"] = None, !["tree"] = None]
  /\ stage' = CASE result = "ok"    -> "version"
                [] result = "error" -> "reboot"
                [] result = "lost"  -> "stuck"
  /\ UNCHANGED <<medium, disk, volat, budget>>

\* update_ver2file, whose result is not looked at.
WriteVersion ==
  /\ stage = "version"
  /\ \/ Works /\ page' = [page EXCEPT !["ver"] = imgVer] /\ stage' = "sync"
     \/ Fault /\ UNCHANGED page /\ stage' = "reboot"
  /\ UNCHANGED <<medium, disk, volat, cuts, swaps>>

SyncVersion ==
  /\ stage = "sync"
  /\ disk' = page
  /\ stage' = "reboot"
  /\ UNCHANGED <<medium, page, volat, budget>>

-----------------------------------------------------------------------------
(***************************************************************************)
(* The device (external)                                                   *)
(***************************************************************************)
Reboot ==
  /\ stage = "reboot"
  /\ stage' = "off"
  /\ disk' = page
  /\ UNCHANGED <<medium, page, volat, budget>>

WriteBack(f) ==
  /\ page[f] # disk[f]
  /\ \/ disk' = [disk EXCEPT ![f] = page[f]]
     \/ /\ page[f] # None
        /\ f = "ver" => disk[f] \notin Image
        /\ disk' = [disk EXCEPT ![f] = Torn]
  /\ UNCHANGED <<stage, medium, page, volat, budget>>

PowerCut ==
  /\ stage # "off" /\ cuts < MaxCuts
  /\ cuts' = cuts + 1
  /\ stage' = "off"
  /\ page' = disk
  /\ UNCHANGED <<medium, disk, volat, faults, swaps>>

ChangeMedium ==
  /\ swaps < MaxSwaps
  /\ swaps' = swaps + 1
  /\ medium' \in Media \ {medium}
  /\ UNCHANGED <<stage, page, disk, volat, faults, cuts>>

-----------------------------------------------------------------------------
UpdateCheck == Boot \/ FindImage \/ NoImage \/ Copy \/ Parse \/ ExtractApp \/ ExtractTree

UpdateApp == InstallSection \/ AllInstalled \/ Cleanup \/ WriteVersion \/ SyncVersion

Device == Reboot \/ (\E f \in File : WriteBack(f)) \/ PowerCut \/ ChangeMedium

Next == UpdateCheck \/ UpdateApp \/ Device

\* The two programs run on, and a reboot that was asked for comes.
Spec == Init /\ [][Next]_vars /\ WF_vars(UpdateCheck) /\ WF_vars(UpdateApp) /\ WF_vars(Reboot)

-----------------------------------------------------------------------------
(***************************************************************************)
(* Properties                                                              *)
(***************************************************************************)
\* The variables keep their types.
TypeOK ==
  /\ stage \in Stage
  /\ medium \in Content \cup {Empty}
  /\ page \in [File -> Content] /\ disk \in [File -> Content]
  /\ firmVer \in Image \cup {None, <<0, 0, 0>>}
  /\ imgVer \in Image \cup {None}
  /\ tries \in 0..3 /\ shifted \in BOOLEAN
  /\ left \in Seq(Section)
  /\ result \in {"ok", "error", "lost"}
  /\ {faults, cuts, swaps} \subseteq Nat

\* Whatever was interrupted, retried or left behind by an earlier boot, the
\* update_app that runs and the tree it installs come from one whole image, the
\* one whose version was compared and will be written (update_check, main.cpp).
UpdaterMatches ==
  stage \in {"update", "version"} =>
    /\ imgVer \in Image /\ page["app"] = imgVer
    /\ stage = "update" => page["tree"] = imgVer

\* When the version on the disk becomes that of an image, every section has that
\* version as programs see it: a section that fails, an attempt before or a power cut
\* during the installation never lead to a version that was not installed as a whole
\* (update_app.cpp, update_sections and update_ver2file).  The sections need not be on the
\* disk yet: a power cut between the rename of the version file and the end of sync()
\* may leave the new version with old or torn sections.
VersionIsInstalled ==
  [][disk'["ver"] # disk["ver"] /\ disk'["ver"] \in Image =>
       \A s \in Section : page[s] = disk'["ver"]]_vars

\* The order of versions: the first number that differs decides.
Above(v, w) == \E i \in 1..3 : v[i] > w[i] /\ \A j \in 1..(i - 1) : v[j] = w[j]

\* The version a file stands for.
VersionOf(ver) == IF ver \in Image THEN ver ELSE <<0, 0, 0>>

\* Whatever medium is put in and whatever fails, power cuts included, the version on the
\* disk only goes up, in a boot in which update_check could read it (upateVerCheck on a
\* copy that may be an older one).  In a boot in which it could not, any image is taken,
\* an older one too.
NoDowngrade ==
  [][disk'["ver"] # disk["ver"] =>
       \/ disk'["ver"] = Torn /\ disk["ver"] \notin Image
       \/ Above(disk'["ver"], VersionOf(disk["ver"]))
       \/ firmVer = None]_vars

\* Nothing fails and nobody touches the device any more.
Quiet == faults = MaxFaults /\ cuts = MaxCuts /\ swaps = MaxSwaps

\* A device that boots undisturbed with a whole newer image in the slot, or with any
\* whole image and a version file that is empty, ends up running the applications with
\* that version and all its sections, and with an older image running the applications:
\* no leftover of an earlier update is in the way (main of update_check).  A torn program
\* may keep it from booting at all.
Converges ==
  \A v \in Image :
    /\ (stage = "off" /\ Quiet /\ medium = v
          /\ (page["ver"] = Torn \/ Above(v, VersionOf(page["ver"])))) ~>
         (stage = "brick" \/ (stage = "apps" /\ \A f \in Section \cup {"ver"} : page[f] = v))
    /\ (stage = "off" /\ Quiet /\ medium = v) ~> (stage \in {"brick", "apps"})
=============================================================================
