----------------------------- MODULE MCLuaTable ------------------------------
EXTENDS LuaTable, Bitwise

\* In four nodes the object collides with the integers 3, and the string with what
\* the collision moved to the last node.
HashDef == [k \in Strings \cup Objects |-> 3]

CreatedDef == {<<0, 0>>, <<3, 1>>}

\* The bit trick of luaH_getint, for indices of IndexBits bits: beyond a hint,
\* key - 1 without the bits of alimit - 1 is below alimit just when key is within
\* the size that luaH_realasize computes.
IndexBits == 5
Mask == 2^IndexBits - 1
ASSUME HiddenPartTrick ==
    \A alimit \in 1..(Mask \div 2), key \in 1..Mask :
        key > alimit =>
            (((key - 1) & (Mask - (alimit - 1))) < alimit <=>
             InHiddenPart([alimit |-> alimit, realsize |-> FALSE], key))
==============================================================================
