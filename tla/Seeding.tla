------------------------------ MODULE Seeding ------------------------------
(***************************************************************************)
(* python -m app.db.seed: one transaction that fills brand, brand_alias,   *)
(* brand_domain, llm_provider and prompt from the lists of the program and *)
(* of keywords.json.  A brand is known by its name, a prompt by its text,  *)
(* and both stand for the row here.                                        *)
(***************************************************************************)
EXTENDS Naturals, FiniteSets

CONSTANTS
    SeedAliases,      \* pairs <<brand, alias>>
    SeedDomains,      \* pairs <<brand, domain>>
    SeedBrands,
    SeedChannels,     \* by provider of the list: is_active
    SeedTexts

(* The aliases and domains of the lists belong to the brands of the lists,  *)
(* and some provider of the list is active.                                *)
ASSUME SeedAssumption ==
    /\ \A x \in SeedAliases \cup SeedDomains : x[1] \in SeedBrands
    /\ SeedChannels \in [DOMAIN SeedChannels -> BOOLEAN]
    /\ \E c \in DOMAIN SeedChannels : SeedChannels[c]

(* What the tables hold: lists is the rows of brand_alias and brand_domain *)
(* as <<field, brand, value>>, prompts the number of rows by text.         *)
ListRows(field, pairs) == {<<field, x[1], x[2]>> : x \in pairs}

SeedLists == ListRows("aliases", SeedAliases) \cup ListRows("domains", SeedDomains)

(* brand_domain.domain is unique, whatever the brand. *)
DomainsClash(rows) ==
    \E x, y \in rows : x[1] = "domains" /\ y[1] = "domains" /\ x[3] = y[3] /\ x[2] # y[2]

(* scalar_one_or_none() refuses two prompts with a text of the file, and   *)
(* the database a domain that another brand has.                           *)
SeedFails(db) ==
    \/ \E text \in SeedTexts : db.prompts[text] > 1
    \/ DomainsClash(db.lists \cup SeedLists)

(* Mutant: a prompt that is there is added once more. *)
SeededAlways(db) ==
    [brands |-> db.brands \cup SeedBrands,
     lists |-> db.lists \cup SeedLists,
     active |-> {c \in DOMAIN SeedChannels : SeedChannels[c]}
                \cup (db.active \ DOMAIN SeedChannels),
     prompts |-> [text \in DOMAIN db.prompts |->
                    IF text \in SeedTexts THEN db.prompts[text] + 1
                    ELSE db.prompts[text]]]

(* seed_brands(), seed_llm_providers() and seed_prompts(): rows are added, *)
(* none is removed; is_active of a listed provider is set.                 *)
Seeded(db) ==
    [brands |-> db.brands \cup SeedBrands,
     lists |-> db.lists \cup SeedLists,
     active |-> {c \in DOMAIN SeedChannels : SeedChannels[c]}
                \cup (db.active \ DOMAIN SeedChannels),
     prompts |-> [text \in DOMAIN db.prompts |->
                    IF text \in SeedTexts /\ db.prompts[text] = 0 THEN 1
                    ELSE db.prompts[text]]]

(* run_seed() *)
RunSeed(db) == IF SeedFails(db) THEN db ELSE Seeded(db)
=============================================================================
