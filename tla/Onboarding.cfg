\* A PAN request, its repetition with another PAN and that of another merchant;
\* two GST requests for one GSTIN and a bank request.
CONSTANTS
    PanReqs  = {"p1", "p2", "p3"}
    GstReqs  = {"g1", "g2"}
    BankReqs = {"a1"}
    Phone   <- MCPhone
    Pan     <- MCPan
    Gstin   <- MCGstin
    Target  <- MCTarget
SPECIFICATION Spec
INVARIANTS
    TypeOK
    OkIsStored
    DropsAreAccountedFor
PROPERTIES
    RefinesRegistry
\* Every request is answered in the end.
CHECK_DEADLOCK FALSE
