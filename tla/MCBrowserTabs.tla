--------------------------- MODULE MCBrowserTabs ---------------------------
EXTENDS BrowserTabs, TLC
Tasks == Permutations(Task)
=============================================================================
