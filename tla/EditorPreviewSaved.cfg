SPECIFICATION Spec
CONSTANTS
 None=None Missing=Missing Empty=e Cut=cut
 Texts={e,cut,big} Large={big}
 MaxRevision=1 MaxDocuments=1 MaxWrites=0 MaxJobs=1 MaxHistory=1
CHECK_DEADLOCK FALSE
PROPERTY PreviewIsNotSaved
