------------------------------ MODULE MCOvernight ------------------------------
EXTENDS Overnight
CONSTANTS r1
MCRuns == {r1}
===============================================================================
