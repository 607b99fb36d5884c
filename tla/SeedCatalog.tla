----------------------------- MODULE SeedCatalog -----------------------------
(***************************************************************************)
(* The catalog of connections an image ships with, applied to the table    *)
(* registrations when the daemon boots, before it serves anything: images  *)
(* come and go, the daemon may stop between any two statements, and while  *)
(* it serves operators override, disable, enable and delete rows.  After   *)
(* the catalog, tools of an old configuration file that have no row yet    *)
(* are imported.                                                           *)
(*                                                                         *)
(* Nothing else runs during the boot, so reading and writing the row of an *)
(* entry is one step.  Catalogs that do not validate abort   *)
(* the boot before the first write and are left out.                       *)
(***************************************************************************)
EXTENDS Naturals

CONSTANTS Name,         \* names of connections
          Version,      \* catalog versions, in the order of semver_lt
          Ships,        \* Ships[v]: the names in version v
          ToolLists,    \* what config.tools of a boot may name
          Translatable, \* the names whose auth there is none or from the environment
          NoRow

ASSUME VersionAssumption == Version \subseteq Nat \ {0}

ASSUME ShipsAssumption == Ships \in [Version -> SUBSET Name]

ASSUME ToolsAssumption == ToolLists \subseteq SUBSET Name

VARIABLES row,          \* row[n]: the registration, or NoRow
          version,      \* seed_version of registrations_meta, 0 if not set
          phase,        \* "down", "load", "import" or "serve"
          image,        \* the version the running image ships, or 0
          todo,         \* entries or tools still to be gone through
          deleted,      \* names an operator has hard-deleted
          wish          \* wish[n]: the operator's last word on n's flag

seedVars == <<row, version, phase, image, todo, deleted, wish>>

\* from: the catalog version the contents come from, 0 for an operator's and for
\* what was imported.
Row == [seed : BOOLEAN, disabled : BOOLEAN, from : {0} \cup Version]

ASSUME NoRowAssumption == NoRow \notin Row

SeedInit ==
    /\ row = [n \in Name |-> NoRow]
    /\ version = 0
    /\ phase = "down"
    /\ image = 0
    /\ todo = {}
    /\ deleted = {}
    /\ wish = [n \in Name |-> FALSE]

-----------------------------------------------------------------------------

\* semver_lt; equal and older versions are skipped.
Newer(v) == version < v

\* bootstrap_from_config_tools begins.
ImportNext ==
    /\ phase' = "import"
    /\ todo' \in ToolLists

Boot(v) ==
    /\ phase = "down"
    /\ image' = v
    /\ \/ /\ Newer(v)
          /\ phase' = "load"
          /\ todo' = Ships[v]
       \/ /\ ~Newer(v)
          /\ ImportNext
    /\ UNCHANGED <<row, version, deleted, wish>>

\* Mutant: the entry's own flag is written.
RefreshedEnabled(n) == [seed |-> TRUE, disabled |-> FALSE, from |-> image]

\* entry_to_registration, with the flag of an existing row
Refreshed(n) ==
    [seed |-> TRUE,
     disabled |-> IF row[n] = NoRow THEN FALSE ELSE row[n].disabled,
     from |-> image]

\* Mutant: operators' rows are refreshed like the others.
OverriddenNever(n) == FALSE

Overridden(n) == row[n] # NoRow /\ ~row[n].seed

\* One entry: an operator's row is not touched.
Apply(n) ==
    /\ phase = "load"
    /\ n \in todo
    /\ todo' = todo \ {n}
    /\ row' = IF Overridden(n) THEN row ELSE [row EXCEPT ![n] = Refreshed(n)]
    /\ deleted' = IF row[n] = NoRow THEN deleted \ {n} ELSE deleted
    /\ wish' = IF row[n] = NoRow THEN [wish EXCEPT ![n] = FALSE] ELSE wish
    /\ UNCHANGED <<version, phase, image>>

\* Mutant: the version is recorded before the last entry is applied.
AppliedNearly == \A m, n \in todo : m = n

Applied == todo = {}

\* set_seed_version
SetSeedVersion ==
    /\ phase = "load"
    /\ Applied
    /\ version' = image
    /\ ImportNext
    /\ UNCHANGED <<row, image, deleted, wish>>

Imported == [seed |-> FALSE, disabled |-> FALSE, from |-> 0]

\* One tool: a row that exists is not touched, also a disabled one; an operator's
\* row that was deleted comes back.
Import(n) ==
    /\ phase = "import"
    /\ n \in todo
    /\ todo' = todo \ {n}
    /\ IF row[n] = NoRow /\ n \in Translatable
       THEN /\ row' = [row EXCEPT ![n] = Imported]
            /\ deleted' = deleted \ {n}
            /\ wish' = [wish EXCEPT ![n] = FALSE]
       ELSE UNCHANGED <<row, deleted, wish>>
    /\ UNCHANGED <<version, phase, image>>

\* The daemon goes on to build its catalog and binds.
Serve ==
    /\ phase = "import"
    /\ todo = {}
    /\ phase' = "serve"
    /\ UNCHANGED <<row, version, image, todo, deleted, wish>>

\* The daemon stops, or a statement of the boot fails and aborts the boot.
GoDown ==
    /\ phase # "down"
    /\ phase' = "down"
    /\ image' = 0
    /\ todo' = {}
    /\ UNCHANGED <<row, version, deleted, wish>>

-----------------------------------------------------------------------------
(***************************************************************************)
(* Operators, while the daemon serves.                                     *)
(***************************************************************************)

\* op_put
Put(n) ==
    /\ phase = "serve"
    /\ row' = [row EXCEPT ![n] =
                 [seed |-> FALSE,
                  disabled |-> IF row[n] = NoRow THEN FALSE ELSE row[n].disabled,
                  from |-> 0]]
    /\ deleted' = deleted \ {n}
    /\ wish' = IF row[n] = NoRow THEN [wish EXCEPT ![n] = FALSE] ELSE wish
    /\ UNCHANGED <<version, phase, image, todo>>

\* op_delete: a seed row is disabled, an operator's is removed.
Delete(n) ==
    /\ phase = "serve"
    /\ row[n] # NoRow
    /\ \/ /\ row[n].seed
          /\ row' = [row EXCEPT ![n].disabled = TRUE]
          /\ wish' = [wish EXCEPT ![n] = TRUE]
          /\ UNCHANGED deleted
       \/ /\ ~row[n].seed
          /\ row' = [row EXCEPT ![n] = NoRow]
          /\ deleted' = deleted \cup {n}
          /\ UNCHANGED wish
    /\ UNCHANGED <<version, phase, image, todo>>

\* op_enable
Enable(n) ==
    /\ phase = "serve"
    /\ row[n] # NoRow
    /\ row' = [row EXCEPT ![n].disabled = FALSE]
    /\ wish' = [wish EXCEPT ![n] = FALSE]
    /\ UNCHANGED <<version, phase, image, todo, deleted>>

SeedNext ==
    \/ \E v \in Version : Boot(v)
    \/ \E n \in Name : Apply(n) \/ Import(n) \/ Put(n) \/ Delete(n) \/ Enable(n)
    \/ SetSeedVersion \/ Serve
    \/ GoDown

SeedSpec == SeedInit /\ [][SeedNext]_seedVars

-----------------------------------------------------------------------------

SeedTypeOK ==
    /\ row \in [Name -> Row \cup {NoRow}]
    /\ version \in {0} \cup Version
    /\ phase \in {"down", "load", "import", "serve"}
    /\ image \in {0} \cup Version
    /\ todo \subseteq Name
    /\ deleted \subseteq Name
    /\ wish \in [Name -> BOOLEAN]

\* The recorded version means what it says: whatever crashes and image changes
\* came before, every entry of that version has its row, unless an operator
\* deleted it, and no seed row of it has older contents (apply_catalog_parsed
\* records the version last).
RecordedIsApplied ==
    version # 0 =>
        \A n \in Ships[version] :
            \/ n \in deleted
            \/ row[n] # NoRow /\ (row[n].seed => row[n].from >= version)

\* A disabled connection stays disabled, and an enabled one enabled, until an
\* operator says otherwise: upgrades, partial upgrades and older images do not
\* change it ("sticky across image upgrades", op_delete).
FlagIsTheOperators ==
    \A n \in Name : row[n] # NoRow => row[n].disabled = wish[n]

\* What an operator registered is only ever replaced by an operator, through
\* every boot ("Operator override - never touch", apply_catalog_parsed; "Don't
\* clobber", bootstrap_from_config_tools), and what a boot writes to a seed row is
\* newer than the last complete catalog.
ContentsOnlyAdvance ==
    [][\A n \in Name :
         (phase \in {"load", "import"} /\ row[n] # NoRow) =>
            /\ row'[n] # NoRow
            /\ row[n].seed = row'[n].seed
            /\ row'[n] = row[n] \/ row'[n].from > version]_seedVars
=============================================================================
