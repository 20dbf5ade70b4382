---------------------------- MODULE CustodyBoot ----------------------------
(***************************************************************************)
(* Custody with the history its boot is about: the files that nobody has   *)
(* changed since the process that is booting was started.  The history     *)
(* only watches; it constrains no step.                                    *)
(***************************************************************************)
EXTENDS Custody

VARIABLE steady

NoFile   == [url |-> {}, forge |-> FALSE]
AllFiles == [url |-> Repos, forge |-> TRUE]
Booting  == proc \in {"opening", "scanning"}

Watch ==
  steady' =
    IF ~Booting' THEN NoFile
    ELSE IF ~Booting THEN AllFiles
    ELSE [url   |-> {r \in steady.url : dir'.url[r] = dir.url[r]},
          forge |-> steady.forge /\ dir'.forge = dir.forge]

InitB     == Init /\ steady = NoFile
SpecB     == InitB /\ [][Next /\ Watch]_<<vars, steady>>
FairSpecB == SpecB /\ Fairness

-----------------------------------------------------------------------------
(* A broker that comes up holds what was in the caps directory: of every   *)
(* file that stayed as it was while it booted it has the credential, for   *)
(* all that it tests, lists and reads them at different times; only a      *)
(* listing that fails may leave a cap-URL out (main.rs, Creds::load).      *)
BootLoadsWhatIsThere ==
  [][proc # "serving" /\ proc' = "serving" =>
       /\ \A r \in steady.url :
            \/ loaded'.git_caps[r] = Trimmed(dir.url[r])
            \/ IoFails /\ loaded'.git_caps[r] = None
       /\ steady.forge =>
            /\ loaded'.forge_admin_token = Trimmed(dir.forge)
            /\ loaded'.forge_owner = OwnerOf(Trimmed(dir.forge))]_<<vars, steady>>

-----------------------------------------------------------------------------
(* The inductive invariant of the proof, beside Custody's.                 *)

(* Of a file that stays as it is a boot knows whether it is there, has     *)
(* still to read it, or has read it.                                       *)
SteadyIsRead ==
  /\ steady.forge /\ dir.forge # None => boot.forge
  /\ proc = "scanning" =>
       \A r \in steady.url :
         \/ r \in boot.entries
         \/ boot.got[r] = Trimmed(dir.url[r])
         \/ IoFails /\ boot.got[r] = None

BootInv ==
  /\ steady \in [url : SUBSET Repos, forge : BOOLEAN]
  /\ ~Booting => steady = NoFile
  /\ SteadyIsRead
=============================================================================
