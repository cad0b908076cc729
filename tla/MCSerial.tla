------------------------------ MODULE MCSerial ------------------------------
EXTENDS Serial

\* A newline with a byte behind it, and a line without a newline.
MCLines == {<<"data">>, <<"newline", "data">>}
=============================================================================
