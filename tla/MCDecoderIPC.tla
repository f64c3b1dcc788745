---- MODULE MCDecoderIPC ----
EXTENDS DecoderIPC

\* FT8: marks 40, 41, 47 and 50. Above 45 MHz, and with an early multithreaded
\* decoder, guiUpdate clears in the first half of the period, too.
FT8 == <<"clear", "decode", "decode", "decode">>
FT8onVHF == <<"clear", "clear", "decode", "decode", "decode">>

\* Other modes decode at the end of the recording.
Others == <<"decode">>

EveryMode == {FT8, FT8onVHF, Others}
NotFT8 == {Others}
====
