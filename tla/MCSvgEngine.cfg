\* Shapes, paints and canvases, written in different ways.
SPECIFICATION SvgSpec
CONSTANTS
    Uploads <- AllUploads
    Original <- Originals
    Precision = 3
    Pi = 3
INVARIANTS
    SameMeasures
    ExtentFollows
    RowsTellTotals
\* Two files are compared.
CHECK_DEADLOCK FALSE
