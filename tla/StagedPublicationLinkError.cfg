\* The metadata calls that follow a failed hard_link may fail too.
CONSTANTS
    Publishers = {p1}
    Files = {f1}
    NoFile = NoFile
    Foreign = Foreign
    MetadataMayFail = TRUE
    MaxCrashes = 0
SPECIFICATION Spec
INVARIANTS LinkErrorMeansNotPublished
