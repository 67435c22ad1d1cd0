----------------------------- MODULE MakeDepend -----------------------------
(***************************************************************************)
(* make_depend.sh, which CMakeLists.txt runs at every configuration: for   *)
(* each library whose directory does not exist it unpacks the archive,     *)
(* gives the directory its name, and builds inside it.  No exit code is    *)
(* looked at, and a run may be interrupted anywhere and started again.     *)
(***************************************************************************)
EXTENDS Naturals, Sequences

CONSTANTS
  Archives,   \* the libraries whose archive is in 3rd/
  MaxRuns     \* bound on the runs of the script

\* BUG: spdlog is built before the fmt it is configured with.
LibrariesByName ==
  <<"cryptopp", "libbase58", "libevent", "nlohmann_json", "protobuf", "rocksdb", "spdlog", "libfmt">>

Libraries ==
  <<"cryptopp", "libbase58", "libevent", "libfmt", "nlohmann_json", "protobuf", "rocksdb", "spdlog">>
LibrarySet == {Libraries[n] : n \in DOMAIN Libraries}

(* Unpacked under their final names; the others are renamed afterwards.      *)
InPlace == {"cryptopp", "rocksdb"}
HeadersOnly == {"nlohmann_json"}
Needs(lib) == IF lib = "spdlog" THEN {"libfmt"} ELSE {}

ASSUME ArchivesAssumption == Archives \subseteq LibrarySet
ASSUME RunsBound == MaxRuns \in Nat

VARIABLES
  dir,        \* the library's directory: "absent", "partial", "source", "built"
  unpacked,   \* what the archive unpacks to before mv: "absent", "partial", "source"
  pc, n,      \* where the script is, and at which library; "stopped" if nowhere
  runs,
  done,       \* the last run came to "-- compile depend done"
  hurt,       \* history: libraries a run was killed or failed at, while it unpacked
              \* them in place or built them
  failed      \* history: libraries whose archive was missing or broke off

disk == <<dir, unpacked>>
vars == <<disk, pc, n, runs, done, hurt, failed>>

lib == Libraries[n]

Init ==
  /\ dir = [l \in LibrarySet |-> "absent"]
  /\ unpacked = [l \in LibrarySet |-> "absent"]
  /\ pc = "stopped"
  /\ n = 1
  /\ runs = 0
  /\ done = FALSE
  /\ hurt = {}
  /\ failed = {}

Start ==
  /\ pc = "stopped"
  /\ runs < MaxRuns
  /\ runs' = runs + 1
  /\ pc' = "check"
  /\ n' = 1
  /\ done' = FALSE
  /\ UNCHANGED <<disk, hurt, failed>>

NextLibrary ==
  IF n = Len(Libraries)
    THEN pc' = "stopped" /\ done' = TRUE /\ UNCHANGED n
    ELSE pc' = "check" /\ n' = n + 1 /\ UNCHANGED done

(* if [ ! -d ... ]: a directory is enough, whatever is in it.                *)
Check ==
  /\ pc = "check"
  /\ \/ dir[lib] = "absent" /\ pc' = "unpack" /\ UNCHANGED <<n, done>>
     \/ dir[lib] # "absent" /\ NextLibrary
  /\ UNCHANGED <<disk, runs, hurt, failed>>

Unpack ==
  /\ pc = "unpack"
  /\ \/ /\ lib \in Archives
        /\ pc' = "unpacking"
        /\ IF lib \in InPlace
             THEN dir' = [dir EXCEPT ![lib] = "partial"] /\ UNCHANGED unpacked
             ELSE /\ unpacked' = [unpacked EXCEPT ![lib] = "partial"]
                  /\ UNCHANGED dir
        /\ UNCHANGED failed
     \/ /\ lib \notin Archives
        /\ pc' = "rename"
        /\ failed' = failed \cup {lib}
        /\ UNCHANGED disk
  /\ UNCHANGED <<n, runs, done, hurt>>

UnpackEnds ==
  /\ pc = "unpacking"
  /\ pc' = "rename"
  /\ \/ /\ IF lib \in InPlace
             THEN dir' = [dir EXCEPT ![lib] = "source"] /\ UNCHANGED unpacked
             ELSE unpacked' = [unpacked EXCEPT ![lib] = "source"] /\ UNCHANGED dir
        /\ UNCHANGED failed
     \/ failed' = failed \cup {lib} /\ UNCHANGED disk
  /\ UNCHANGED <<n, runs, done, hurt>>

\* BUG: what was unpacked is copied, and a kill leaves half of it.
RenameCopies ==
  /\ pc = "rename"
  /\ \/ /\ lib \notin InPlace /\ unpacked[lib] # "absent" /\ dir[lib] = "absent"
        /\ dir' = [dir EXCEPT ![lib] = "partial"]
        /\ UNCHANGED <<pc, unpacked>>
     \/ /\ lib \in InPlace \/ unpacked[lib] = "absent" \/ dir[lib] # "absent"
        /\ pc' = "build"
        /\ dir' = IF lib \in InPlace THEN dir ELSE [dir EXCEPT ![lib] = unpacked[lib]]
        /\ UNCHANGED unpacked
  /\ UNCHANGED <<n, runs, done, hurt, failed>>

(* mv, which renames within one file system.                                 *)
Rename ==
  /\ pc = "rename"
  /\ pc' = "build"
  /\ IF lib \notin InPlace /\ unpacked[lib] # "absent"
       THEN /\ dir' = [dir EXCEPT ![lib] = unpacked[lib]]
            /\ unpacked' = [unpacked EXCEPT ![lib] = "absent"]
       ELSE UNCHANGED disk
  /\ UNCHANGED <<n, runs, done, hurt, failed>>

(***************************************************************************)
(* cd, configure and make.  Where there is no directory to change to they  *)
(* run somewhere else and build nothing.                                   *)
(***************************************************************************)
Builds == dir[lib] = "source" /\ \A l \in Needs(lib) : dir[l] = "built"

Build ==
  /\ pc = "build"
  /\ \/ /\ Builds
        /\ dir' = [dir EXCEPT ![lib] = "built"]
        /\ UNCHANGED hurt
     \/ /\ ~Builds \/ lib \notin HeadersOnly
        /\ hurt' = IF Builds THEN hurt \cup {lib} ELSE hurt
        /\ UNCHANGED dir
  /\ NextLibrary
  /\ UNCHANGED <<unpacked, runs, failed>>

(* The configuration is interrupted.                                         *)
Kill ==
  /\ pc # "stopped"
  /\ pc' = "stopped"
  /\ hurt' = IF pc = "build" \/ (pc \in {"unpacking", "rename"} /\ lib \in InPlace)
               THEN hurt \cup {lib} ELSE hurt
  /\ UNCHANGED <<disk, n, runs, done, failed>>

Next ==
  \/ Start
  \/ Check
  \/ Unpack
  \/ UnpackEnds
  \/ Rename
  \/ Build
  \/ Kill

Spec == Init /\ [][Next]_vars

-----------------------------------------------------------------------------
(* The variables have the values the declarations promise.                  *)
TypeOK ==
  /\ dir \in [LibrarySet -> {"absent", "partial", "source", "built"}]
  /\ unpacked \in [LibrarySet -> {"absent", "partial", "source"}]
  /\ pc \in {"stopped", "check", "unpack", "unpacking", "rename", "build"}
  /\ n \in DOMAIN Libraries
  /\ runs \in 0..MaxRuns
  /\ done \in BOOLEAN
  /\ hurt \subseteq LibrarySet /\ failed \subseteq LibrarySet

(* Because mv is the step that makes `[ -d ]' true, an interruption leaves   *)
(* half a library only where the archive is unpacked under its final name;   *)
(* elsewhere half a library means that an archive broke off and the script   *)
(* went on.                                                                  *)
PartialOnlyInPlace ==
  TypeOK /\ \A l \in LibrarySet : dir[l] = "partial" =>
              l \in InPlace \/ l \in failed

(* What an interrupted run loses a later one makes up for, but for what was  *)
(* lost after the directory was there: a run that comes to its end has built *)
(* every library that is not missing, was not hurt in that way and does not  *)
(* need one that is.                                                         *)
Harmed(l) == l \in hurt \cup failed
RunRepairsTheRest ==
  done => \A l \in LibrarySet :
            dir[l] = "built" \/ Harmed(l) \/ \E m \in Needs(l) : Harmed(m)
=============================================================================
