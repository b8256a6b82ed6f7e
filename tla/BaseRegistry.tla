------------------------------ MODULE BaseRegistry ------------------------------
(***************************************************************************)
(* The admins, the emo bases and the deck definitions of the contract:     *)
(* contract/game/src/lib.rs and common/rs/src/mtc/emo_bases.rs.            *)
(*                                                                         *)
(* The bases map an id to the base's grade, the one attribute that the     *)
(* deck rules read.  Pools, boards and ghosts elsewhere in the storage     *)
(* refer to bases by id.                                                   *)
(***************************************************************************)
EXTENDS Chain, Mapping, FiniteSets, FiniteSetsExt

CONSTANTS
  BaseIds,        \* the ids of emo bases
  DeckSize,       \* built bases in a deck (6)
  AdminAccounts,  \* the accounts that deploy and administer the contract
  Updates         \* the update_emo_bases arguments that admins send

ASSUME RegistryAssumption ==
  /\ DeckSize \in Nat
  /\ \A u \in Updates :
       /\ DOMAIN u.new \subseteq BaseIds
       /\ \A id \in DOMAIN u.new : u.new[id] \in 1 .. 6
       /\ u.force \in BOOLEAN

VARIABLES
  admins,                   \* a Vec in the code; duplicates in it have no effect
  emo_bases,                \* id -> grade; empty before the first update
  deck_fixed_emo_base_ids,
  deck_built_emo_base_ids,
  forced                    \* history: an update has replaced all bases

registryVars ==
  <<admins, emo_bases, deck_fixed_emo_base_ids, deck_built_emo_base_ids, forced>>

RegistryTypeOK ==
  /\ admins \subseteq AdminAccounts
  /\ DOMAIN emo_bases \subseteq BaseIds
  /\ \A id \in DOMAIN emo_bases : emo_bases[id] \in 1 .. 6
  /\ deck_fixed_emo_base_ids \subseteq DOMAIN emo_bases
  /\ deck_built_emo_base_ids \subseteq DOMAIN emo_bases
  /\ forced \in BOOLEAN

\* Contract::new, called by a deployer
RegistryInit ==
  /\ \E deployer \in AdminAccounts : admins = {deployer}
  /\ emo_bases = EmptyMapping
  /\ deck_fixed_emo_base_ids = {}
  /\ deck_built_emo_base_ids = {}
  /\ forced = FALSE

AddAdmin(caller, account) ==
  /\ caller \in admins
  /\ admins' = admins \cup {account}
  /\ UNCHANGED <<emo_bases, deck_fixed_emo_base_ids, deck_built_emo_base_ids, forced>>

\* Vec::retain; nothing keeps the last admin from going
RemoveAdmin(caller, account) ==
  /\ caller \in admins
  /\ admins' = admins \ {account}
  /\ UNCHANGED <<emo_bases, deck_fixed_emo_base_ids, deck_built_emo_base_ids, forced>>

\* Mutant: the old bases are dropped without force
BuildEmoBasesReplacing(bases, new_bases, force) == new_bases

\* emo_bases::check_and_build_emo_bases: only a forced update touches a base that is
\* already there
BuildEmoBases(bases, new_bases, force) ==
  IF force THEN new_bases
  ELSE [id \in DOMAIN bases \cup DOMAIN new_bases |->
          IF id \in DOMAIN bases THEN bases[id] ELSE new_bases[id]]

\* Mutant: the ids of the built bases are not checked
UpdateEmoBasesUnchecked(caller, u) ==
  LET bases == BuildEmoBases(emo_bases, u.new, u.force)
  IN  /\ caller \in admins
      /\ u.fixed \subseteq DOMAIN bases
      /\ emo_bases' = bases
      /\ deck_fixed_emo_base_ids' = u.fixed
      /\ deck_built_emo_base_ids' = u.built
      /\ forced' = (forced \/ u.force)
      /\ UNCHANGED admins

\* Contract::update_emo_bases: no id of a deck list may be without a base
UpdateEmoBases(caller, u) ==
  LET bases == BuildEmoBases(emo_bases, u.new, u.force)
  IN  /\ caller \in admins
      /\ u.fixed \cup u.built \subseteq DOMAIN bases
      /\ emo_bases' = bases
      /\ deck_fixed_emo_base_ids' = u.fixed
      /\ deck_built_emo_base_ids' = u.built
      /\ forced' = (forced \/ u.force)
      /\ UNCHANGED admins

\* setup::build_built_base_ids: DeckSize allowed bases, no two of a grade
Decks ==
  {deck \in kSubset(DeckSize, deck_built_emo_base_ids) :
     \A a, b \in deck : a # b => emo_bases[a] # emo_bases[b]}

\* setup::build_pool: the bases of a match's pool, which must all exist
Pool(deck) == deck \cup deck_fixed_emo_base_ids

================================================================================
