\* Two publishers and two inodes: both stage, or one of them twice.  No symmetry, as two
\* properties are temporal; the theorems hold for any number of both.
CONSTANTS
    Publishers = {p1, p2}
    Files = {f1, f2}
    NoFile = NoFile
    Foreign = Foreign
    MetadataMayFail = FALSE
    MaxCrashes = 1
SPECIFICATION Spec
INVARIANTS DestinationComplete DurableSurvives ReportsAreTrue CleanupIsDurable
PROPERTIES NoDoubtfulRemoval ImplementsRegister
