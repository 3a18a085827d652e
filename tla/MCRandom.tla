------------------------------ MODULE MCRandom ------------------------------
(* Random for TLC: words of 4 bits, the multipliers and RANDOM_INIT's table *)
(* reduced to the bits that arithmetic modulo 2^4 and 2^8 sees.             *)
EXTENDS RandomInv

CONSTANTS b1, b2

MCM == 16
MCMult31 == 1103515245 % MCM
MCMult64 == 45  \* the low byte of 6364136223846793005 = 0x5851F42D4C957F2D

(* The low hexadecimal digit of RANDOM_INIT[1] .. RANDOM_INIT[31].          *)
RANDOM_INIT ==
    <<13, 15, 6, 9, 4, 4, 8, 8, 8, 7, 15, 15, 11, 1, 12, 9, 10, 6, 9, 12, 5,
      7, 4, 4, 4, 15, 5, 8, 4, 9, 7>>
MCInitialWords == [k \in 0 .. 30 |-> RANDOM_INIT[k + 1]]

(* Two threads; buffers of the program that end in the middle of a word,    *)
(* one just below the boundary between the linear and the additive          *)
(* generator, one just above.                                               *)
MCBuffers == {Default, b1, b2}
MCSeeds == {6}
MCBytes == [b \in MCBuffers |-> CASE b = Default -> 128 [] b = b1 -> 35 [] b = b2 -> 31]
MCSizes == {7, 31, 35}

(* One thread and enough calls for both indices to wrap around 7 words.     *)
WrapBuffers == {Default, b1}
WrapBytes == [b \in WrapBuffers |-> CASE b = Default -> 128 [] b = b1 -> 127]
WrapSizes == {63, 127}
=============================================================================
