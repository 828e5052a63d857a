\* A certification and its document.
SPECIFICATION Spec
CONSTANTS
  Company = {"a", "b"}
  Service = {"service"}
  Project = {"project"}
  Certification = {"certification"}
  Owner <- MCOwner
  Request = {r1, r2}
  Url = {"u1", "u2", "u3"}
  MaxImages = 1
INVARIANTS
  CertificationsAreNamed
