---- MODULE MCVaultCache ----
EXTENDS VaultCache
\* two texts of one size and one of another
MCTexts == {"ab", "cd", "long"}
MCSize == [t \in MCTexts |-> IF t = "long" THEN 4 ELSE 2]
====
