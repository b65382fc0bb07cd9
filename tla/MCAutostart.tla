---------------------------- MODULE MCAutostart -----------------------------
EXTENDS Autostart

MCDelays == {0, 2}
MCMedia == {"disk", "tape", "inject", "snapshot"}
=============================================================================
