------------------------------- MODULE Creds -------------------------------
(***************************************************************************)
(* Credential custody as data (creds.rs): what the broker holds in RAM,    *)
(* how it is built from the files of the caps directory, and the two       *)
(* halves of the scrub.  A credential string is an element of Secrets; its *)
(* text never matters, only whether it is there, which one it is, whether  *)
(* its bytes were overwritten, and (for the forge-admin file) whether it   *)
(* parses as the owner-creds JSON blob.                                    *)
(***************************************************************************)
CONSTANTS
  Repos,        (* repository names that may have a `<repo>.url` file      *)
  CapUrls,      (* contents of `<repo>.url` files                          *)
  AuthCaps,     (* contents of `authkeys.cap`, and tokens a client sends   *)
  AdminTokens,  (* bare contents of `forge-admin.token`                    *)
  OwnerBlobs,   (* contents of it that parse as ForgeOwnerCreds JSON       *)
  None,         (* an absent file, or Option::None                         *)
  Blank,        (* a file that is empty, blank or unreadable               *)
  Zeroed        (* a string whose bytes were overwritten with NUL          *)

ForgeSecrets == AdminTokens \cup OwnerBlobs
Secrets      == CapUrls \cup AuthCaps \cup ForgeSecrets

ASSUME CredsAssumption ==
  /\ {None, Blank, Zeroed} \cap Secrets = {}
  /\ AdminTokens \cap OwnerBlobs = {}
  /\ None # Blank /\ None # Zeroed /\ Blank # Zeroed

CapFiles == [url      : [Repos -> CapUrls \cup {None, Blank}],
             authkeys : AuthCaps \cup {None, Blank},
             forge    : ForgeSecrets \cup {None, Blank}]

CredsType == [git_caps          : [Repos -> CapUrls \cup {None, Zeroed}],
              forge_admin_token : ForgeSecrets \cup {None, Zeroed},
              forge_owner       : OwnerBlobs \cup {None, Zeroed}]

NoUrls  == [r \in Repos |-> None]
NoFiles == [url |-> NoUrls, authkeys |-> None, forge |-> None]
NoCreds == [git_caps |-> NoUrls, forge_admin_token |-> None, forge_owner |-> None]

-----------------------------------------------------------------------------
(* Reading a credential file: an unreadable file or one that trims to the  *)
(* empty string yields no credential.                                      *)
Trimmed(content) == IF content \in Secrets THEN content ELSE None

(* A JSON blob carries the owner creds; anything else is a bare token.     *)
OwnerOf(raw) == IF raw \in OwnerBlobs THEN raw ELSE None

(* What Creds::load assembles from the cap-URLs it collected and the       *)
(* contents of the forge-admin file.                                       *)
Loaded(caps, forge) ==
  LET raw == Trimmed(forge)
  IN  [git_caps |-> caps, forge_admin_token |-> raw, forge_owner |-> OwnerOf(raw)]

(* `list_caps` names: one per held git cap, and the forge.                 *)
CapNames(c) ==
  {<<"git", r>> : r \in {x \in Repos : c.git_caps[x] # None}}
    \cup {n \in {<<"forge">>} : c.forge_admin_token # None}

-----------------------------------------------------------------------------
(* Creds::scrub runs in two halves under the mutex: the bytes of every     *)
(* held string are overwritten, then map and options are emptied.          *)
OverwrittenString(s) == IF s = None THEN None ELSE Zeroed

Overwritten(c) ==
  [git_caps          |-> [r \in Repos |-> OverwrittenString(c.git_caps[r])],
   forge_admin_token |-> OverwrittenString(c.forge_admin_token),
   forge_owner       |-> OverwrittenString(c.forge_owner)]

MutantCleared(c) == [c EXCEPT !.forge_admin_token = None, !.forge_owner = None]
Cleared(c) ==
  [c EXCEPT !.git_caps = NoUrls, !.forge_admin_token = None, !.forge_owner = None]

(* The strings of c that are still live secrets. *)
SecretsIn(c) ==
  Secrets \cap ({c.git_caps[r] : r \in Repos} \cup {c.forge_admin_token, c.forge_owner})

SecretsOnDisk(d) ==
  Secrets \cap ({d.url[r] : r \in Repos} \cup {d.authkeys, d.forge})
=============================================================================
