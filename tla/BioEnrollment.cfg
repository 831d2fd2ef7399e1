\* Room for two of three templates; the byte counter wraps after four samples.
CONSTANTS
    MAX_FINGERPRINTS = 2
    Required = 2
    ByteMod = 4
    TemplateIds = {t1, t2, t3}
    Names = {n, m}
    None = None
SPECIFICATION BioSpec
INVARIANTS BioTypeOK EnrolledBySamples
PROPERTIES TemplatesKept EnrollmentEnds
