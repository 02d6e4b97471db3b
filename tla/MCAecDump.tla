------------------------------ MODULE MCAecDump ------------------------------
EXTENDS AecDump

MCBytes == [CONFIG |-> 2, INIT |-> 1, STREAM |-> 3, REVERSE_STREAM |-> 2,
            RUNTIME_SETTING |-> 1]
MCLimit == <<5, -1>>
==============================================================================
