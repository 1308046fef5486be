------------------------------ MODULE MCBrowser ------------------------------
(* Constants of the checked instance of Browser. *)
EXTENDS Browser, TLC

CONSTANTS t1, t2, dhl, cello, domain, claude, codex, text

TabSymmetry == Permutations(Tabs)

(* The file lists both brands and both channels; the tables were seeded     *)
(* from an older file, without DHL.                                        *)
FileAliases == {}
FileDomains == {<<dhl, domain>>}
FileChannels == (claude :> TRUE) @@ (codex :> TRUE)

CardLists == {<<"domains", cello>>, <<"domains", dhl>>}
CardValues == [domains |-> {domain}]

OldTables ==
    [brands |-> {cello}, lists |-> {<<"domains", cello, domain>>},
     active |-> {claude, codex}, prompts |-> text :> 1]
=============================================================================
