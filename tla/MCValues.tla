------------------------------ MODULE MCValues ------------------------------
EXTENDS Values

(* around the bounds of small integers, digits and the Karatsuba sizes *)
MCSeeds  == {0, 1, -1, 7, 8, -8, 15, -16, 16, 63, 64, -64, 511, 512, -513, 4095, -5000}
MCOthers == {0, 1, -1, 3, 8, -8, 15, -16, 63, -64, 65, 512}

(* words with few bits, runs of bits, whole bytes, and patterns *)
Patterns(w) == {{0}, {w - 1}, {w - 2}, 0 .. w - 1, 3 .. 11, {1, 5, 9, w - 3},
                {i \in 0 .. w - 1 : i % 3 = 0}, {i \in 0 .. w - 1 : (i \div 8) % 2 = 0}, {i \in 0 .. w - 1 : i % 8 = 0}}
MCSingles(w) == {{}} \cup {i .. w - 1 : i \in 0 .. w - 1} \cup {0 .. i : i \in 0 .. w - 1} \cup {{i} : i \in 0 .. w - 1}
MCPairs(w)   == Patterns(w)
MCNarrow     == {0, 1, 2, 15, 16, 17, 100, 127, 128, 129, 240, 254, 255}

(* a, e acute (2 bytes), the euro sign (3), a raw byte (4) *)
MCBytes     == {0, 97, 128, 169, 195, 192, 226, 237, 240, 243, 244, 245, 255}
MCLong      == {<<226, 130, 172>>, <<224, 130, 172>>, <<237, 160, 128>>, <<240, 159, 152, 128>>, <<240, 143, 128, 128>>,
                <<243, 174, 131, 191>>, <<243, 174, 130>>, <<244, 144, 128, 128>>, <<244, 143, 191, 191>>,
                <<195, 169, 226, 130>>, <<195, 195, 169>>, <<97, 195, 169, 97, 169>>}
MCExternals == {<<>>} \cup {<<b>> : b \in MCBytes} \cup {<<b, c>> : b \in MCBytes, c \in MCBytes} \cup MCLong
(* halves of surrogate pairs, and 0xD800, 0xE000 and 0xFFFF, which overrun *)
MCUnits     == {0, 97, 233, 8364, 55296, 55297, 56182, 55357, 56319, 56832, 56320, 57343, 57344, 65535}
MCExternals16 == {<<>>} \cup {<<u>> : u \in MCUnits} \cup {<<u, v>> : u \in MCUnits, v \in MCUnits}
MCCounts    == {-1, 1, 2}
MCLiterals  == {<<>>, <<97>>, <<97, 97>>, <<233>>, <<8364>>, <<32>>, <<233, 97>>, <<97, 0>>, <<32, 66, 9>>}
=============================================================================
