--------------------------- MODULE MCRegisterCache ---------------------------
(* Small device descriptions for RegisterCache. *)
EXTENDS RegisterCache

MCFields == {"lo", "hi"}
MCValues == {0, 1}

\* A selector that is part of the address of val and drives thru, which is
\* written through; val is a masked register.  Selector is the feature that
\* sets the selector, Literal one that keeps its value in the graph.
MCRegisters == {"sel", "val", "thru"}
MCFeatures == {"Selector", "Literal"}
MCBlocks == {"sel", "val0", "val1", "thru"}
MCPoints == [sel |-> {"sel"}, val |-> {"val0", "val1"}, thru |-> {"thru"}]
MCMask == [sel |-> MCFields, val |-> {"lo"}, thru |-> MCFields]
MCAccess == [r \in MCRegisters |-> "RW"]
MCCachable == [sel |-> "WriteAround", val |-> "WriteAround", thru |-> "WriteThrough"]
NamesRegister == [sel |-> {}, val |-> {"sel"}, thru |-> {"sel"}]
NamesFeature == [sel |-> {}, val |-> {"Selector"}, thru |-> {"sel"}]
MCSteers == [n \in MCRegisters \cup MCFeatures |-> IF n = "sel" THEN {"val"} ELSE {}]
LiteralSteers == [n \in MCRegisters \cup MCFeatures |-> IF n = "Literal" THEN {"val"} ELSE {}]
MCDrives == [b \in MCBlocks |-> IF b = "sel" THEN {"thru"} ELSE {}]

\* Two entries of one StructReg: two nodes over one block.
StructEntries == {"entry1", "entry2"}
StructPoints == [r \in StructEntries |-> {"block"}]
StructMask == [entry1 |-> {"lo"}, entry2 |-> {"hi"}]
StructAccess == [r \in StructEntries |-> "RW"]
StructCachable == [r \in StructEntries |-> "WriteAround"]
StructInvalidator == [r \in StructEntries |-> {}]
StructSteers == [r \in StructEntries |-> {}]
NoDrives == [b \in {"block"} |-> {}]
=============================================================================
