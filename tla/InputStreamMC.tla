--------------------------- MODULE InputStreamMC ----------------------------
EXTENDS InputStream, TLC

CONSTANTS void, jump, walk

MCInputs == {void, jump, walk}
=============================================================================
