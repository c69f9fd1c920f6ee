------------------------------- MODULE MCTabs -------------------------------
EXTENDS Tabs
MCIds == 0..11
=============================================================================
