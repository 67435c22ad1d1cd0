-------------------------- MODULE MakeDepend_proofs --------------------------
(***************************************************************************)
(* What the runs of make_depend.sh leave behind, for every set of archives *)
(* and any number of runs, each of which may be killed at any step.        *)
(***************************************************************************)
EXTENDS MakeDepend, TLAPS

USE DEF disk

(***************************************************************************)
(* At a library: its directory does not exist before it is unpacked in     *)
(* place or renamed, and what is there afterwards is whole unless the      *)
(* archive was missing or broke off.                                       *)
(***************************************************************************)
AtLibrary ==
  /\ pc = "unpack" => dir[lib] = "absent"
  /\ pc = "unpacking" /\ lib \in InPlace => dir[lib] = "partial"
  /\ pc = "unpacking" /\ lib \notin InPlace => dir[lib] = "absent"
  /\ pc = "rename" /\ lib \in InPlace => dir[lib] = "source" \/ lib \in failed
  /\ pc = "rename" /\ lib \notin InPlace => /\ dir[lib] = "absent"
                                            /\ unpacked[lib] = "source" \/ lib \in failed
  /\ pc = "build" => dir[lib] \in {"source", "built"} \/ lib \in failed

(***************************************************************************)
(* A directory that is there while the script is elsewhere belongs to a    *)
(* library of which RunRepairsTheRest holds, and so does every library the *)
(* run has passed.                                                         *)
(***************************************************************************)
Repaired(l) == dir[l] = "built" \/ Harmed(l) \/ \E m \in Needs(l) : Harmed(m)
Working == pc \in {"unpacking", "rename", "build"}
Settled ==
  /\ \A l \in LibrarySet : dir[l] = "absent" \/ Repaired(l) \/ (Working /\ l = lib)
  /\ pc # "stopped" => \A k \in 1..(n - 1) : Repaired(Libraries[k])
  /\ done => pc = "stopped"

DependInv == PartialOnlyInPlace /\ RunRepairsTheRest /\ AtLibrary /\ Settled

-----------------------------------------------------------------------------
(* The libraries in their order: what another one needs comes before it, and *)
(* needs nothing itself.                                                     *)
LEMMA LibraryOrder ==
  /\ DOMAIN Libraries = 1..8 /\ Len(Libraries) = 8
  /\ LibrarySet = {Libraries[k] : k \in 1..8}
  /\ \A k \in 1..8 : \A m \in Needs(Libraries[k]) :
       /\ \E j \in 1..(k - 1) : m = Libraries[j]
       /\ Needs(m) = {}
<1>1. DOMAIN Libraries = 1..8 /\ Len(Libraries) = 8
  BY DEF Libraries
<1>2. \A k \in 1..8 : Libraries[k] = "spdlog" => k = 8
  BY DEF Libraries
<1>3. Libraries[4] = "libfmt" /\ "libfmt" # "spdlog"
  BY DEF Libraries
<1>4. ASSUME NEW k \in 1..8, NEW m \in Needs(Libraries[k])
      PROVE  /\ \E j \in 1..(k - 1) : m = Libraries[j]
             /\ Needs(m) = {}
  <2>1. Libraries[k] = "spdlog" /\ m = "libfmt"
    BY <1>4 DEF Needs
  <2>2. k = 8
    BY <1>2, <2>1
  <2> QED BY <1>3, <2>1, <2>2 DEF Needs
<1> QED BY <1>1, <1>4 DEF LibrarySet

LEMMA AtALibrary == TypeOK => n \in 1..8 /\ lib \in LibrarySet
  BY LibraryOrder DEF TypeOK, lib

(* No step takes away what repaired a library: one that is built stays so,   *)
(* and the histories grow.                                                   *)
LEMMA StaysRepaired ==
  ASSUME \A l \in LibrarySet : dir[l] = "built" => dir'[l] = "built",
         hurt \subseteq hurt', failed \subseteq failed',
         NEW l \in LibrarySet, Repaired(l)
  PROVE  Repaired(l)'
BY DEF Repaired, Harmed

(* Going on to the next library, or to the end, after one that is repaired.  *)
LEMMA NextLibrarySettles ==
  ASSUME TypeOK, pc # "stopped", ~done, NextLibrary,
         \A k \in 1..n : Repaired(Libraries[k])',
         \A l \in LibrarySet : dir'[l] = "absent" \/ Repaired(l)'
  PROVE  RunRepairsTheRest' /\ AtLibrary' /\ Settled'
<1>1. n \in 1..8 /\ Len(Libraries) = 8 /\ LibrarySet = {Libraries[k] : k \in 1..8}
  BY LibraryOrder, AtALibrary
<1>2. CASE n = 8 /\ pc' = "stopped" /\ done' = TRUE
  <2>1. \A l \in LibrarySet : Repaired(l)'
    BY <1>1, <1>2
  <2>2. RunRepairsTheRest'
    BY <2>1 DEF RunRepairsTheRest, Repaired
  <2> QED BY <1>2, <2>2 DEF AtLibrary, Settled
<1>3. CASE pc' = "check" /\ n' = n + 1 /\ done' = done
  <2>1. \A k \in 1..(n' - 1) : Repaired(Libraries[k])'
    BY <1>1, <1>3
  <2> QED BY <1>3, <2>1 DEF AtLibrary, Settled, RunRepairsTheRest
<1> QED BY <1>1, <1>2, <1>3 DEF NextLibrary

-----------------------------------------------------------------------------
LEMMA NextLibraryType ==
  ASSUME TypeOK, NextLibrary
  PROVE  n' \in DOMAIN Libraries /\ done' \in BOOLEAN /\ pc' \in {"stopped", "check"}
<1>1. n \in 1..8 /\ DOMAIN Libraries = 1..8 /\ Len(Libraries) = 8 /\ done \in BOOLEAN
  BY LibraryOrder, AtALibrary DEF TypeOK
<1>2. CASE n = 8
  BY <1>1, <1>2 DEF NextLibrary
<1>3. CASE n # 8
  <2>1. n' = n + 1 /\ pc' = "check" /\ done' = done
    BY <1>1, <1>3 DEF NextLibrary
  <2> QED BY <1>1, <1>3, <2>1
<1> QED BY <1>2, <1>3

LEMMA TypeStep == TypeOK /\ [Next]_vars => TypeOK'
<1> SUFFICES ASSUME TypeOK, [Next]_vars PROVE TypeOK'
  OBVIOUS
<1> USE DEF TypeOK
<1>0. lib \in LibrarySet /\ n \in 1..8 /\ DOMAIN Libraries = 1..8 /\ Len(Libraries) = 8
  BY LibraryOrder, AtALibrary
<1>n. NextLibrary => /\ n' \in DOMAIN Libraries /\ done' \in BOOLEAN
                     /\ pc' \in {"stopped", "check"}
  BY NextLibraryType
<1>1. CASE Start
  <2>1. runs' \in 0..MaxRuns /\ n' = 1 /\ pc' = "check" /\ done' = FALSE
        /\ UNCHANGED <<disk, hurt, failed>>
    BY <1>1, RunsBound DEF Start
  <2>2. n' \in DOMAIN Libraries
    BY <1>0, <2>1
  <2> QED BY <2>1, <2>2
<1>2. CASE Check
  BY <1>0, <1>2, <1>n DEF Check
<1>3. CASE Unpack
  BY <1>0, <1>3 DEF Unpack
<1>4. CASE UnpackEnds
  BY <1>0, <1>4 DEF UnpackEnds
<1>5. CASE Rename
  BY <1>0, <1>5 DEF Rename
<1>6. CASE Build
  BY <1>0, <1>6, <1>n DEF Build
<1>7. CASE Kill
  BY <1>0, <1>7 DEF Kill
<1>8. CASE UNCHANGED vars
  BY <1>8 DEF vars
<1> QED
  BY <1>1, <1>2, <1>3, <1>4, <1>5, <1>6, <1>7, <1>8 DEF Next

(* Half a library under its final name.                                      *)
LEMMA PartialStep == DependInv /\ [Next]_vars => PartialOnlyInPlace'
<1> SUFFICES ASSUME DependInv, [Next]_vars PROVE PartialOnlyInPlace'
  OBVIOUS
<1> USE DEF DependInv, PartialOnlyInPlace, AtLibrary
<1>t. TypeOK'
  BY TypeStep
<1>0. lib \in LibrarySet /\ dir \in [LibrarySet -> {"absent", "partial", "source", "built"}]
  BY AtALibrary DEF TypeOK
<1>1. CASE UNCHANGED dir /\ failed \subseteq failed'
  BY <1>t, <1>1
<1>2. CASE Unpack \/ UnpackEnds
  BY <1>t, <1>0, <1>1, <1>2 DEF Unpack, UnpackEnds
<1>3. CASE Rename
  BY <1>t, <1>0, <1>1, <1>3 DEF Rename
<1>4. CASE Build
  BY <1>t, <1>0, <1>4 DEF Build
<1>5. CASE Start \/ Check \/ Kill \/ UNCHANGED vars
  BY <1>1, <1>5 DEF Start, Check, Kill, vars
<1> QED
  BY <1>2, <1>3, <1>4, <1>5 DEF Next

LEMMA SettledStep ==
  DependInv /\ [Next]_vars => RunRepairsTheRest' /\ AtLibrary' /\ Settled'
<1> SUFFICES ASSUME DependInv, [Next]_vars
             PROVE  RunRepairsTheRest' /\ AtLibrary' /\ Settled'
  OBVIOUS
<1>t. TypeOK /\ RunRepairsTheRest /\ AtLibrary /\ Settled
  BY DEF DependInv, PartialOnlyInPlace
<1>0. /\ lib \in LibrarySet /\ n \in 1..8
      /\ dir \in [LibrarySet -> {"absent", "partial", "source", "built"}]
      /\ unpacked \in [LibrarySet -> {"absent", "partial", "source"}]
      /\ pc \in {"stopped", "check", "unpack", "unpacking", "rename", "build"}
      /\ \A k \in 1..8 : Libraries[k] \in LibrarySet
  BY <1>t, LibraryOrder, AtALibrary DEF TypeOK
<1>k. \A l \in LibrarySet : dir[l] = "built" => dir'[l] = "built"
  BY <1>t, <1>0
  DEF AtLibrary, Next, Start, Check, Unpack, UnpackEnds, Rename, Build, Builds, Kill, vars
<1>h. hurt \subseteq hurt' /\ failed \subseteq failed'
  BY DEF Next, Start, Check, Unpack, UnpackEnds, Rename, Build, Kill, vars
<1>r. \A l \in LibrarySet : Repaired(l) => Repaired(l)'
  BY <1>k, <1>h, StaysRepaired
<1>1. CASE Start
  BY <1>t, <1>1, <1>r DEF Start, RunRepairsTheRest, AtLibrary, Settled, Working
<1>2. CASE Check
  <2>1. CASE dir[lib] = "absent" /\ pc' = "unpack" /\ UNCHANGED <<n, done>>
    BY <1>t, <1>0, <1>2, <1>r, <2>1
    DEF Check, RunRepairsTheRest, AtLibrary, Settled, Working, lib
  <2>2. CASE dir[lib] # "absent" /\ NextLibrary
    <3>1. Repaired(lib)
      BY <1>t, <1>0, <1>2, <2>2 DEF Check, Settled, Working
    <3>2. \A k \in 1..n : Repaired(Libraries[k])'
      BY <1>t, <1>0, <1>2, <1>r, <3>1 DEF Check, Settled, lib
    <3>3. \A l \in LibrarySet : dir'[l] = "absent" \/ Repaired(l)'
      BY <1>t, <1>0, <1>2, <1>r DEF Check, Settled, Working
    <3>4. pc # "stopped" /\ ~done
      BY <1>t, <1>2 DEF Check, Settled
    <3> QED BY <1>t, <2>2, <3>2, <3>3, <3>4, NextLibrarySettles
  <2> QED BY <1>2, <2>1, <2>2 DEF Check
<1>3. CASE Unpack \/ UnpackEnds \/ Rename
  <2>1. /\ pc \in {"unpack", "unpacking", "rename"} /\ UNCHANGED <<n, done>>
        /\ pc' \in {"unpacking", "rename", "build"}
        /\ \A l \in LibrarySet : l # lib => dir'[l] = dir[l]
    BY <1>0, <1>3 DEF Unpack, UnpackEnds, Rename
  <2>2. ~done /\ RunRepairsTheRest'
    BY <1>t, <2>1 DEF Settled, RunRepairsTheRest
  <2>3. Settled'
    <3>1. ASSUME NEW l \in LibrarySet
          PROVE  dir'[l] = "absent" \/ Repaired(l)' \/ (Working /\ l = lib)'
      <4>1. CASE l = lib
        BY <2>1, <4>1 DEF Working, lib
      <4>2. CASE l # lib
        BY <1>t, <1>r, <2>1, <4>2 DEF Settled, Working
      <4> QED BY <4>1, <4>2
    <3>2. \A k \in 1..(n - 1) : Repaired(Libraries[k])'
      BY <1>t, <1>0, <1>r, <2>1 DEF Settled
    <3> QED BY <2>1, <2>2, <3>1, <3>2 DEF Settled
  <2>4. lib' = lib
    BY <2>1 DEF lib
  <2>5. AtLibrary'
    <3>1. CASE Unpack
      BY <1>t, <1>0, <2>4, <3>1 DEF Unpack, AtLibrary
    <3>2. CASE UnpackEnds
      BY <1>t, <1>0, <2>4, <3>2 DEF UnpackEnds, AtLibrary
    <3>3. CASE Rename
      <4>1. pc = "rename" /\ pc' = "build" /\ UNCHANGED failed
        BY <3>3 DEF Rename
      <4>2. dir'[lib] \in {"source", "built"} \/ lib \in failed
        BY <1>t, <1>0, <3>3 DEF Rename, AtLibrary
      <4> QED BY <2>4, <4>1, <4>2 DEF AtLibrary
    <3> QED BY <1>3, <3>1, <3>2, <3>3
  <2> QED BY <2>2, <2>3, <2>5
<1>4. CASE Build
  <2>0. PICK b \in LibrarySet : b = lib
    BY <1>0
  <2>1. Repaired(b)'
    <3>1. CASE dir'[b] = "built" \/ b \in hurt'
      BY <3>1 DEF Repaired, Harmed
    <3>2. CASE ~Builds /\ dir[b] # "source"
      <4>1. Repaired(b)
        BY <1>t, <1>4, <2>0, <3>2 DEF Build, AtLibrary, Repaired, Harmed
      <4> QED BY <1>r, <4>1
    <3>3. CASE ~Builds /\ dir[b] = "source"
      <4>1. PICK m \in Needs(b) : dir[m] # "built"
        BY <2>0, <3>3 DEF Builds
      <4>2. (\E j \in 1..(n - 1) : m = Libraries[j]) /\ Needs(m) = {}
        BY <1>0, <2>0, <4>1, LibraryOrder DEF lib
      <4>3. Repaired(m)
        BY <1>t, <1>0, <1>4, <4>2 DEF Build, Settled
      <4>4. Harmed(m)
        BY <4>1, <4>2, <4>3 DEF Repaired
      <4> QED BY <1>h, <4>1, <4>4 DEF Repaired, Harmed
    <3> QED BY <1>0, <1>4, <2>0, <3>1, <3>2, <3>3 DEF Build
  <2>2. ASSUME NEW k \in 1..n
        PROVE  Repaired(Libraries[k])'
    <3>1. CASE k = n
      BY <2>0, <2>1, <3>1 DEF lib
    <3>2. CASE k \in 1..(n - 1)
      <4>1. Repaired(Libraries[k])
        BY <1>t, <1>4, <3>2 DEF Build, Settled
      <4> QED BY <1>0, <1>r, <4>1
    <3> QED BY <1>0, <3>1, <3>2
  <2>3. \A l \in LibrarySet : dir'[l] = "absent" \/ Repaired(l)'
    <3> SUFFICES ASSUME NEW l \in LibrarySet, l # b
                 PROVE  dir'[l] = "absent" \/ Repaired(l)'
      BY <2>1
    <3>1. dir'[l] = dir[l]
      BY <1>0, <1>4, <2>0 DEF Build
    <3> QED BY <1>t, <1>r, <2>0, <3>1 DEF Settled
  <2>4. pc # "stopped" /\ ~done /\ NextLibrary
    BY <1>t, <1>4 DEF Build, Settled
  <2> QED BY <1>t, <2>2, <2>3, <2>4, NextLibrarySettles
<1>5. CASE Kill
  <2>1. pc # "stopped" /\ pc' = "stopped" /\ UNCHANGED <<dir, n, done>>
    BY <1>5 DEF Kill
  <2>2. ~done
    BY <1>t, <2>1 DEF Settled
  <2>3. CASE ~Working
    BY <1>t, <1>r, <2>1, <2>2, <2>3 DEF RunRepairsTheRest, AtLibrary, Settled, Working
  <2>4. CASE Working
    <3>0. PICK b \in LibrarySet : b = lib
      BY <1>0
    <3>1. dir[b] = "absent" \/ b \in hurt'
      BY <1>t, <1>5, <2>4, <3>0 DEF Kill, AtLibrary, Working
    <3>2. dir'[b] = "absent" \/ Repaired(b)'
      BY <2>1, <3>1 DEF Repaired, Harmed
    <3>3. \A l \in LibrarySet : dir'[l] = "absent" \/ Repaired(l)'
      BY <1>t, <1>r, <2>1, <3>0, <3>2 DEF Settled
    <3> QED
      BY <2>1, <2>2, <3>3 DEF RunRepairsTheRest, AtLibrary, Settled
  <2> QED BY <2>3, <2>4
<1>6. CASE UNCHANGED vars
  BY <1>t, <1>6
  DEF vars, RunRepairsTheRest, AtLibrary, Settled, Working, Repaired, Harmed, lib
<1> QED
  BY <1>1, <1>2, <1>3, <1>4, <1>5, <1>6 DEF Next

LEMMA DependInvAlways == Spec => []DependInv
<1>1. Init => DependInv
  <2> SUFFICES ASSUME Init PROVE DependInv
    OBVIOUS
  <2>1. TypeOK
    <3>1. n \in DOMAIN Libraries /\ runs \in 0..MaxRuns
      BY LibraryOrder, RunsBound DEF Init
    <3> QED BY <3>1 DEF Init, TypeOK
  <2> QED
    BY <2>1 DEF Init, DependInv, PartialOnlyInPlace, RunRepairsTheRest, AtLibrary, Settled
<1>2. DependInv /\ [Next]_vars => DependInv'
  BY PartialStep, SettledStep DEF DependInv
<1> QED
  BY <1>1, <1>2, PTL DEF Spec

(* Wherever a run is killed, half a library is found only where the archive  *)
(* is unpacked in place, or where it broke off and the script went on.       *)
THEOREM PartialAlwaysInPlace == Spec => []PartialOnlyInPlace
<1>1. DependInv => PartialOnlyInPlace
  BY DEF DependInv
<1> QED
  BY <1>1, DependInvAlways, PTL

(* A run that comes to its end has built all that no earlier one harmed.     *)
THEOREM RunAlwaysRepairsTheRest == Spec => []RunRepairsTheRest
<1>1. DependInv => RunRepairsTheRest
  BY DEF DependInv
<1> QED
  BY <1>1, DependInvAlways, PTL
=============================================================================
