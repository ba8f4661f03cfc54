---------------------------- MODULE MCConsole ----------------------------
EXTENDS Console
MCFormats == {<<2>>, <<1, 1, 1>>}
==========================================================================
